---- MODULE Spec2Model ----
(***************************************************************************)
(* Model of the Helix test-result reporter:                                *)
(*   reporter/azure_devops_result_publisher.py                             *)
(*       AzureDevOpsTestResultPublisher.upload_batch / convert_results /   *)
(*       publish_results                                                   *)
(*   reporter/formats/junit.py  JUnitFormat.read_results                   *)
(*                                                                         *)
(* Python values are represented as follows.                               *)
(*   - A str is a sequence of one-character strings, so that endswith and  *)
(*     split are computed character by character.  The time attribute of   *)
(*     a testcase and the text of an attachment are sequences of the code  *)
(*     points of their characters.                                         *)
(*   - A float returned by builtins.float is the binary64 value itself,    *)
(*     written as float.hex() writes it.                                   *)
(*   - An Optional value is a set: None is {} and a present value x is     *)
(*     {x}.  Fields that the code never leaves empty are plain values.     *)
(*   - A dict that is only looked up by key is a function whose DOMAIN is  *)
(*     its key set; a dict whose iteration order matters is a sequence of  *)
(*     [key, value] entries in insertion order.                            *)
(***************************************************************************)
EXTENDS Integers, Sequences, FiniteSets, TLC

VARIABLES
    entry,                  \* the public method that was called
    pc,                     \* position in that call
    results,                \* the Iterable[TestResult] argument
    singlePass,             \* TRUE: results is a generator, FALSE: a list
    consumed,               \* how many items of results have been iterated
    results_with_attachments, \* upload_batch line 31
    unconverted_results,    \* convert_results line 181
    i,                      \* index of the for loop of line 189
    data_driven_tests,      \* line 185, insertion ordered
    non_data_driven_tests,  \* line 186
    test_name_ordering,     \* line 187
    test_case_results,      \* first component of the value returned at 226
    test_name_order,        \* second component of the value returned at 226
    submitted,              \* the argument lists of the batch submission calls
    published_results,      \* line 70, the service's answer
    j,                      \* index of the for loop of line 72
    handled,                \* indexes of published rows that passed line 75
    uploads,                \* the attachment upload calls made, in order
    warnings,               \* log.warning calls made by publish_results
    error,                  \* the exception that ended the call, if any
    document,               \* junit.py line 22: the end events of the file
    position,               \* index of the next event of the for loop of line 22
    yielded,                \* the records read_results has yielded, line 70
    access_token,           \* self.access_token, line 24
    credentials             \* line 229: what get_credentials returned

vars == <<entry, pc, results, singlePass, consumed, results_with_attachments,
          unconverted_results, i, data_driven_tests, non_data_driven_tests,
          test_name_ordering, test_case_results, test_name_order, submitted,
          published_results, j, handled, uploads, warnings, error,
          document, position, yielded, access_token, credentials>>

convertVars == <<unconverted_results, i, data_driven_tests,
                 non_data_driven_tests, test_name_ordering>>

publishVars == <<submitted, published_results, j, handled, uploads, warnings,
                 error>>

junitVars == <<document, position, yielded>>

connectionVars == <<access_token, credentials>>

----------------------------------------------------------------------------
(* Bounds of the model.                                                    *)

\* longest record sequence handed directly to convert_results
MaxRecords == 3

\* longest record sequence handed to upload_batch
MaxBatch == 2

----------------------------------------------------------------------------
(* Python's None and Optional values.                                      *)

None == {}

Some(x) == {x}

Get(o) == CHOOSE x \in o : TRUE

\* builtins.str applied to an Optional[str]: str(None) is the text "None"
text(o) == IF o = None THEN <<"N", "o", "n", "e">> ELSE Get(o)

----------------------------------------------------------------------------
(* Sequence helpers.                                                       *)

\* the indexes 1..n in increasing order
Indexes(n) == [k \in 1..n |-> k]

Min(a, b) == IF a <= b THEN a ELSE b

Range(s) == {s[k] : k \in DOMAIN s}

\* the function f of domain 1..n, as the sequence of its n values
Sequence(f) == f \o <<>>

\* all sequences over S of length at most n
SeqUpTo(S, n) == UNION {[1..k -> S] : k \in 0..n}

----------------------------------------------------------------------------
(* Test names.                                                             *)

nA == <<"A">>

nB == <<"B">>

nA1 == <<"A", "(", "1", ")">>

nA2 == <<"A", "(", "2", ")">>

nB1 == <<"B", "(", "1", ")">>

Names == {nA, nB, nA1, nA2, nB1}

\* is_data_driven_test: r.endswith(")")
is_data_driven_test(r) == Len(r) > 0 /\ r[Len(r)] = ")"

\* get_ddt_base_name: r.split('(', 1)[0], the text before the first "(" or
\* the whole text when it has none
get_ddt_base_name(r) ==
    LET opens == {k \in 1..Len(r) : r[k] = "("}
    IN  IF opens = {} THEN r
        ELSE SubSeq(r, 1, (CHOOSE k \in opens : \A m \in opens : k <= m) - 1)

----------------------------------------------------------------------------
(* Input records: defs.TestResult as built at junit.py line 68.            *)

\* the record outcomes; "Bogus" stands for any value that is not one of
\* the three the converters recognize
Outcomes == {"Pass", "Fail", "Skip", "Bogus"}

Recognized == {"Pass", "Fail", "Skip"}

\* defs.TestResultAttachment values, named as junit.py lines 51 and 58 do;
\* their text is the text of an element, an Optional[str], a str being the
\* sequence of the code points of its characters: "out", and
\* "\u00e9\u20ac" (e with acute accent, euro sign), which UTF-8 writes in
\* two and in three bytes
ConsoleOutput == [name |-> "Console_Output.log", text |-> Some(<<111, 117, 116>>)]

ErrorOutput == [name |-> "Error_Output.log", text |-> Some(<<233, 8364>>)]

\* an attachment whose text UTF-8 cannot write: "\ud83d", a surrogate
\* without its pair
UnencodableOutput == [name |-> "Error_Output.log", text |-> Some(<<55357>>)]

\* the attachment of an element without text (<system-out/>): its text is
\* None
EmptyOutput == [name |-> "Console_Output.log", text |-> None]

AttachmentLists == {<<>>, <<ConsoleOutput, ErrorOutput>>}

\* duration of a record of the model, in seconds: distinct for the
\* variants of one base name and for the outcomes of one name
DurationOf(name, result) ==
    Len(name) + (CASE result = "Pass" -> 0 [] result = "Fail" -> 10
                   [] result = "Skip" -> 20 [] OTHER -> 30)
                + (IF name = nA2 THEN 1 ELSE 0)

\* TestResult(name, kind, type_name, method, duration, result,
\*            exception_type, failure_message, stack_trace, skip_reason,
\*            attachments); the fields the publisher never reads are left out
TestResult(name, result, attachments) ==
    [name |-> name,
     kind |-> <<"j", "u", "n", "i", "t">>,
     duration_seconds |-> DurationOf(name, result),
     result |-> result,
     failure_message |-> IF result = "Fail" THEN Some(<<"m">> \o name) ELSE None,
     stack_trace |-> IF result = "Fail" /\ name # nB THEN Some(<<"t">> \o name) ELSE None,
     skip_reason |-> IF result = "Skip" THEN Some(<<"s">> \o name) ELSE None,
     attachments |-> attachments]

\* the items a record sequence handed to convert_results may hold: a
\* record without attachments, or None
ConvertInputs ==
    {Some(TestResult(n, o, <<>>)) : n \in Names, o \in Outcomes} \cup {None}

----------------------------------------------------------------------------
(* convert_results: the two converters (lines 104-179).                    *)

\* line 104: the correlation payload, fixed for the process
comment == "{ \"HelixJobId\": ..., \"HelixWorkItemName\": ... }"

\* line 27: HELIX_WORKITEM_FRIENDLYNAME
work_item_name == "workitem"

\* the outcome each recognized record outcome is published as
OutcomeOf(result) ==
    CASE result = "Pass" -> "Passed"
      [] result = "Fail" -> "Failed"
      [] result = "Skip" -> "NotExecuted"

\* lines 109-134 with the skip reason carried as the error message
convert_to_sub_testWithSkipReason(r) ==
    IF r.result \notin Recognized THEN None
    ELSE Some([comment |-> comment,
               display_name |-> r.name,
               duration_in_ms |-> r.duration_seconds * 1000,
               outcome |-> OutcomeOf(r.result),
               stack_trace |-> IF r.result = "Fail" /\ r.stack_trace # None
                               THEN Some(text(r.stack_trace)) ELSE None,
               error_message |-> CASE r.result = "Fail" -> Some(text(r.failure_message))
                                   [] r.result = "Skip" -> Some(text(r.skip_reason))
                                   [] OTHER -> None])

\* lines 109-134 with the duration left in seconds
convert_to_sub_testInSeconds(r) ==
    IF r.result \notin Recognized THEN None
    ELSE Some([comment |-> comment,
               display_name |-> r.name,
               duration_in_ms |-> r.duration_seconds,
               outcome |-> OutcomeOf(r.result),
               stack_trace |-> IF r.result = "Fail" /\ r.stack_trace # None
                               THEN Some(text(r.stack_trace)) ELSE None,
               error_message |-> IF r.result = "Fail"
                                 THEN Some(text(r.failure_message)) ELSE None])

\* lines 109-134: Optional[TestSubResult]
convert_to_sub_test(r) ==
    IF r.result \notin Recognized THEN None
    ELSE Some([comment |-> comment,
               display_name |-> r.name,
               duration_in_ms |-> r.duration_seconds * 1000,
               outcome |-> OutcomeOf(r.result),
               stack_trace |-> IF r.result = "Fail" /\ r.stack_trace # None
                               THEN Some(text(r.stack_trace)) ELSE None,
               error_message |-> IF r.result = "Fail"
                                 THEN Some(text(r.failure_message)) ELSE None])

\* lines 136-179: Optional[TestCaseResult]
convert_result(r) ==
    IF r.result \notin Recognized THEN None
    ELSE Some([test_case_title |-> r.name,
               automated_test_name |-> r.name,
               automated_test_type |-> r.kind,
               automated_test_storage |-> work_item_name,
               priority |-> 1,
               duration_in_ms |-> r.duration_seconds * 1000,
               outcome |-> OutcomeOf(r.result),
               state |-> "Completed",
               error_message |-> CASE r.result = "Fail" -> Some(text(r.failure_message))
                                   [] r.result = "Skip" -> Some(text(r.skip_reason))
                                   [] OTHER -> None,
               stack_trace |-> IF r.result = "Fail" /\ r.stack_trace # None
                               THEN Some(text(r.stack_trace)) ELSE None,
               comment |-> comment,
               result_group_type |-> None,
               sub_results |-> None])

----------------------------------------------------------------------------
(* Dictionaries.                                                           *)

\* the empty dict
EmptyDict == [n \in {} |-> <<>>]

\* d[k] = v
Put(d, k, v) == [n \in (DOMAIN d) \cup {k} |-> IF n = k THEN v ELSE d[n]]

\* k in d, for an insertion-ordered dict
HasKey(d, k) == \E n \in 1..Len(d) : d[n].key = k

\* the position of key k in an insertion-ordered dict that has it
KeyIndex(d, k) == CHOOSE n \in 1..Len(d) : d[n].key = k

----------------------------------------------------------------------------
(* convert_results: the grouping loop (lines 181-226).                     *)

\* lines 220-223: the seed node of a new group
NewGroup(cr, csr, base_name) ==
    [cr EXCEPT !.automated_test_name = base_name,
               !.result_group_type = Some("dataDriven"),
               !.sub_results = Some(<<csr>>)]

\* AddSubResult with the parent taking the outcome of every later variant
AddSubResultLastWins(parent, sub_test) ==
    [parent EXCEPT !.sub_results = Some(Append(Get(@), sub_test)),
                   !.outcome = sub_test.outcome]

\* AddSubResult with the parent also taking the duration of the variant
AddSubResultRetimed(parent, sub_test) ==
    [parent EXCEPT !.sub_results = Some(Append(Get(@), sub_test)),
                   !.duration_in_ms = sub_test.duration_in_ms,
                   !.outcome = IF sub_test.outcome = "Failed" THEN "Failed" ELSE @]

\* AddSubResult without lines 210-211: the parent keeps its outcome
AddSubResultNoPropagation(parent, sub_test) ==
    [parent EXCEPT !.sub_results = Some(Append(Get(@), sub_test))]

\* lines 206 and 210-211: fold a later variant into its parent
AddSubResult(parent, sub_test) ==
    [parent EXCEPT !.sub_results = Some(Append(Get(@), sub_test)),
                   !.outcome = IF sub_test.outcome = "Failed" THEN "Failed" ELSE @]

\* lines 193-194 without line 195: nothing registered in the ordering index
ConvertStandaloneUnregistered(st, r) ==
    [st EXCEPT !.non_data_driven_tests = Append(@, convert_result(r))]

\* lines 193-196: a record that is not data driven
ConvertStandalone(st, r) ==
    [st EXCEPT !.non_data_driven_tests = Append(@, convert_result(r)),
               !.test_name_ordering = Put(@, r.name, <<>>)]

\* lines 201-211 with the later variant left out of its group
ConvertLaterVariantLost(st, r, base_name) == st

\* lines 201-211: a variant whose base name already has a group
ConvertLaterVariant(st, r, base_name) ==
    LET sub_test == convert_to_sub_test(r)
        n == KeyIndex(st.data_driven_tests, base_name)
    IN  IF sub_test = None THEN st
        ELSE [st EXCEPT
                !.data_driven_tests[n].value = AddSubResult(@, Get(sub_test)),
                !.test_name_ordering[base_name] = Append(@, r.name)]

\* lines 213-224: a variant whose base name has no group yet
ConvertFirstVariant(st, r, base_name) ==
    LET cr == convert_result(r)
        csr == convert_to_sub_test(r)
    IN  IF cr = None \/ csr = None THEN st
        ELSE [st EXCEPT
                !.data_driven_tests =
                    Append(@, [key |-> base_name,
                               value |-> NewGroup(Get(cr), Get(csr), base_name)]),
                !.test_name_ordering = Put(@, base_name, <<r.name>>)]

\* lines 190-224 with a None item kept as an empty entry instead of skipped
ConvertOneKeepingNone(st, item) ==
    IF item = None
    THEN [st EXCEPT !.non_data_driven_tests = Append(@, None)]
    ELSE LET r == Get(item)
         IN  IF ~is_data_driven_test(r.name) THEN ConvertStandalone(st, r)
             ELSE LET base_name == get_ddt_base_name(r.name)
                  IN  IF HasKey(st.data_driven_tests, base_name)
                      THEN ConvertLaterVariant(st, r, base_name)
                      ELSE ConvertFirstVariant(st, r, base_name)

\* lines 190-224: the body of the loop for one item of unconverted_results
ConvertOne(st, item) ==
    IF item = None THEN st
    ELSE LET r == Get(item)
         IN  IF ~is_data_driven_test(r.name) THEN ConvertStandalone(st, r)
             ELSE LET base_name == get_ddt_base_name(r.name)
                  IN  IF HasKey(st.data_driven_tests, base_name)
                      THEN ConvertLaterVariant(st, r, base_name)
                      ELSE ConvertFirstVariant(st, r, base_name)

\* lines 185-187: the three collections before the loop
EmptyGrouping ==
    [data_driven_tests |-> <<>>,
     non_data_driven_tests |-> <<>>,
     test_name_ordering |-> EmptyDict]

RECURSIVE ConvertAll(_, _)
\* lines 189-224: the whole loop over a list of items
ConvertAll(st, items) ==
    IF items = <<>> THEN st
    ELSE ConvertAll(ConvertOne(st, Head(items)), Tail(items))

\* line 226 with the two lists concatenated the other way round
ReturnedNodesStandaloneFirst(ddt, non_ddt) ==
    non_ddt \o [k \in 1..Len(ddt) |-> Some(ddt[k].value)]

\* line 226: list(data_driven_tests.values()) + non_data_driven_tests
ReturnedNodes(ddt, non_ddt) ==
    [k \in 1..Len(ddt) |-> Some(ddt[k].value)] \o non_ddt

\* what a fresh iteration over the results argument yields: a list starts
\* over, a generator goes on from where the last iteration stopped
Iterate ==
    IF singlePass THEN SubSeq(results, consumed + 1, Len(results)) ELSE results

\* line 181: unconverted_results = list(results), and lines 185-187
ListResults ==
    /\ pc = "convert_results"
    /\ unconverted_results' = Iterate
    /\ consumed' = IF singlePass THEN Len(results) ELSE consumed
    /\ i' = 1
    /\ data_driven_tests' = <<>>
    /\ non_data_driven_tests' = <<>>
    /\ test_name_ordering' = EmptyDict
    /\ pc' = "convert_loop"
    /\ UNCHANGED <<entry, results, singlePass, results_with_attachments,
                   test_case_results, test_name_order>>
    /\ UNCHANGED publishVars
    /\ UNCHANGED junitVars
    /\ UNCHANGED connectionVars

\* lines 189-224: one iteration of the loop
ConvertRecord ==
    /\ pc = "convert_loop"
    /\ i <= Len(unconverted_results)
    /\ LET st == ConvertOne([data_driven_tests |-> data_driven_tests,
                             non_data_driven_tests |-> non_data_driven_tests,
                             test_name_ordering |-> test_name_ordering],
                            unconverted_results[i])
       IN  /\ data_driven_tests' = st.data_driven_tests
           /\ non_data_driven_tests' = st.non_data_driven_tests
           /\ test_name_ordering' = st.test_name_ordering
    /\ i' = i + 1
    /\ UNCHANGED <<entry, pc, results, singlePass, consumed,
                   results_with_attachments, unconverted_results,
                   test_case_results, test_name_order>>
    /\ UNCHANGED publishVars
    /\ UNCHANGED junitVars
    /\ UNCHANGED connectionVars

\* line 226 and, under upload_batch, line 33
ConvertReturn ==
    /\ pc = "convert_loop"
    /\ i > Len(unconverted_results)
    /\ test_case_results' = ReturnedNodes(data_driven_tests, non_data_driven_tests)
    /\ test_name_order' = test_name_ordering
    /\ pc' = IF entry = "upload_batch" THEN "publish_results" ELSE "returned"
    /\ UNCHANGED <<entry, results, singlePass, consumed, results_with_attachments>>
    /\ UNCHANGED convertVars
    /\ UNCHANGED publishVars
    /\ UNCHANGED junitVars
    /\ UNCHANGED connectionVars

\* the state shared by every entry point before anything has run
Fresh ==
    /\ consumed = 0
    /\ results_with_attachments = EmptyDict
    /\ unconverted_results = <<>>
    /\ i = 1
    /\ data_driven_tests = <<>>
    /\ non_data_driven_tests = <<>>
    /\ test_name_ordering = EmptyDict
    /\ test_case_results = <<>>
    /\ test_name_order = EmptyDict
    /\ submitted = <<>>
    /\ published_results = <<>>
    /\ j = 1
    /\ handled = {}
    /\ uploads = <<>>
    /\ warnings = 0
    /\ error = "none"
    /\ credentials = None

\* no report file is being read
NoDocument ==
    /\ document = <<>>
    /\ position = 1
    /\ yielded = <<>>

\* convert_results called with a list of records
InitConvert ==
    /\ entry = "convert_results"
    /\ pc = "convert_results"
    /\ results \in SeqUpTo(ConvertInputs, MaxRecords)
    /\ singlePass = FALSE
    /\ access_token = Some(<<"t">>)
    /\ Fresh
    /\ NoDocument

NextConvert == ListResults \/ ConvertRecord \/ ConvertReturn

SpecConvert == InitConvert /\ [][NextConvert]_vars

----------------------------------------------------------------------------
(* upload_batch (lines 30-35).                                             *)

\* the items a record sequence handed to upload_batch may hold: failed
\* records (the ones junit.py gives attachments, lines 42-60) and records
\* with an unrecognized outcome, with or without attachments, or None
BatchInputs ==
    {Some(TestResult(n, o, a)) :
        n \in Names, o \in {"Fail", "Bogus"}, a \in AttachmentLists}
    \cup {Some(TestResult(nB, "Fail", <<ConsoleOutput, UnencodableOutput>>)),
          Some(TestResult(nB, "Fail", <<EmptyOutput, ErrorOutput>>))}
    \cup {None}

\* line 31: {r.name: r for r in results if r is not None and r.attachments};
\* a later record replaces an earlier one of the same name
AttachmentsByName(items) ==
    LET keep == {k \in DOMAIN items :
                    items[k] # None /\ Get(items[k]).attachments # <<>>}
    IN  [n \in {Get(items[k]).name : k \in keep} |->
            Get(items[CHOOSE k \in keep :
                        /\ Get(items[k]).name = n
                        /\ \A m \in keep : Get(items[m]).name = n => m <= k])]

\* line 31: the first iteration over results
CollectAttachments ==
    /\ pc = "upload_batch"
    /\ results_with_attachments' = AttachmentsByName(Iterate)
    /\ consumed' = IF singlePass THEN Len(results) ELSE consumed
    /\ pc' = "convert_results"
    /\ UNCHANGED <<entry, results, singlePass, test_case_results, test_name_order>>
    /\ UNCHANGED convertVars
    /\ UNCHANGED publishVars
    /\ UNCHANGED junitVars
    /\ UNCHANGED connectionVars

----------------------------------------------------------------------------
(* publish_results (lines 43-101).                                         *)

\* the alphabet of base64.b64encode
Base64Alphabet ==
    <<"A", "B", "C", "D", "E", "F", "G", "H", "I", "J", "K", "L", "M", "N", "O", "P",
      "Q", "R", "S", "T", "U", "V", "W", "X", "Y", "Z", "a", "b", "c", "d", "e", "f",
      "g", "h", "i", "j", "k", "l", "m", "n", "o", "p", "q", "r", "s", "t", "u", "v",
      "w", "x", "y", "z", "0", "1", "2", "3", "4", "5", "6", "7", "8", "9", "+", "/">>

\* the exceptions lines 46, 49 and 58 raise
TypeError == [raises |-> "TypeError"]

UnicodeEncodeError == [raises |-> "UnicodeEncodeError"]

\* a request, or the exception raised in its place
Raised(x) == "raises" \in DOMAIN x

\* the code points UTF-8 does not write: the surrogates U+D800..U+DFFF
Surrogates == 55296..57343

\* the bytes UTF-8 writes for one code point
Utf8(c) ==
    IF c < 128 THEN <<c>>
    ELSE IF c < 2048 THEN <<192 + (c \div 64), 128 + (c % 64)>>
    ELSE IF c < 65536
         THEN <<224 + (c \div 4096), 128 + ((c \div 64) % 64), 128 + (c % 64)>>
    ELSE <<240 + (c \div 262144), 128 + ((c \div 4096) % 64),
           128 + ((c \div 64) % 64), 128 + (c % 64)>>

\* a text UTF-8 can write
Encodable(s) == \A n \in 1..Len(s) : s[n] \notin Surrogates

RECURSIVE Utf8Text(_)
\* the bytes UTF-8 writes for a text without surrogates, by halves
Utf8Text(s) ==
    IF s = <<>> THEN <<>>
    ELSE IF Len(s) = 1 THEN Utf8(s[1])
    ELSE Utf8Text(SubSeq(s, 1, Len(s) \div 2))
            \o Utf8Text(SubSeq(s, Len(s) \div 2 + 1, Len(s)))

\* a text bytes can encode: a str without surrogates
HasBytes(o) == o # None /\ Encodable(Get(o))

\* lines 49 and 58: bytes(attachment.text, "utf-8"); it raises TypeError
\* on None (encoding without a string argument) and UnicodeEncodeError on
\* a surrogate
bytes(o) ==
    IF o = None THEN TypeError
    ELSE IF ~Encodable(Get(o)) THEN UnicodeEncodeError
    ELSE Utf8Text(Get(o))

\* lines 49 and 58: base64.b64encode(data).decode("utf-8") for bytes: three
\* bytes give four characters, and "=" fills the last four
b64encode(data) ==
    LET byte(n) == IF n <= Len(data) THEN data[n] ELSE 0
        group(g) == byte(3 * g - 2) * 65536 + byte(3 * g - 1) * 256 + byte(3 * g)
        character(n) ==
            LET g == (n + 3) \div 4
                v == group(g)
            IN  CASE n % 4 = 1 -> Base64Alphabet[(v \div 262144) + 1]
                  [] n % 4 = 2 -> Base64Alphabet[((v \div 4096) % 64) + 1]
                  [] n % 4 = 3 -> IF 3 * g - 1 <= Len(data)
                                  THEN Base64Alphabet[((v \div 64) % 64) + 1] ELSE "="
                  [] OTHER -> IF 3 * g <= Len(data)
                              THEN Base64Alphabet[(v % 64) + 1] ELSE "="
    IN  Sequence([n \in 1..(4 * ((Len(data) + 2) \div 3)) |-> character(n)])

\* line 46: base64.b64encode(text(attachment.text)).  text is builtins.str
\* (line 5), so the argument is a str whatever the text, "None" for None,
\* and b64encode, which takes bytes, raises TypeError
b64encodeText(o) == TypeError

\* lines 49 and 58: the stream of a text, or the exception of bytes
Encoded(o) == IF ~HasBytes(o) THEN bytes(o) ELSE b64encode(bytes(o))

\* the streams of the texts of the attachments above, computed once
Streams ==
    [o \in {ConsoleOutput.text, ErrorOutput.text, UnencodableOutput.text,
             EmptyOutput.text} |-> Encoded(o)]

\* lines 49 and 58: the stream of a text, or the exception of bytes
StreamOf(o) == IF o \in DOMAIN Streams THEN Streams[o] ELSE Encoded(o)

\* lines 43-55: the request send_attachment makes; the try of line 46
\* raises TypeError and the handler of line 49 builds the stream, and what
\* the handler raises is not caught
send_attachment(attachment, result_id) ==
    LET tried == b64encodeText(attachment.text)
        stream == IF tried = TypeError THEN StreamOf(attachment.text) ELSE tried
    IN  IF tried = TypeError /\ ~HasBytes(attachment.text) THEN stream
        ELSE [call |-> "create_test_result_attachment",
              file_name |-> attachment.name,
              stream |-> stream,
              result_id |-> result_id,
              sub_result_id |-> None]

\* lines 57-64: the request send_sub_attachment makes, or the exception of
\* line 58
send_sub_attachment(attachment, result_id, sub_result_id) ==
    LET stream == StreamOf(attachment.text)
    IN  IF ~HasBytes(attachment.text) THEN stream
        ELSE [call |-> "create_test_sub_result_attachment",
              file_name |-> attachment.name,
              stream |-> stream,
              result_id |-> result_id,
              sub_result_id |-> Some(sub_result_id)]

\* line 75 without the test: every row is taken as accepted
AcceptedAlways(row) == TRUE

\* line 75: the row was not rejected by the service
Accepted(row) == row.id # -1

\* zip stopping one pair early
ZipLengthShort(a, b) == IF Min(Len(a), Len(b)) > 0 THEN Min(Len(a), Len(b)) - 1 ELSE 0

\* line 97: the number of pairs zip(a, b) yields
ZipLength(a, b) == Min(Len(a), Len(b))

\* line 79: the row's own name is a key of results_with_attachments
HasOwnAttachments(row) ==
    /\ row.automated_test_name # None
    /\ Get(row.automated_test_name) \in DOMAIN results_with_attachments

\* lines 83-84: one request per attachment of the record of that name, or
\* the exception raised in its place
OwnUploads(row) ==
    LET atts == results_with_attachments[Get(row.automated_test_name)].attachments
    IN  [n \in 1..Len(atts) |-> send_attachment(atts[n], row.id)]

RECURSIVE PairUploads(_, _, _, _)
\* lines 97-101, from pair n on: one request per attachment of each paired
\* name that is a key of results_with_attachments
PairUploads(row, order, subs, n) ==
    IF n > ZipLength(order, subs) THEN <<>>
    ELSE (IF order[n] \in DOMAIN results_with_attachments
          THEN LET atts == results_with_attachments[order[n]].attachments
               IN  [a \in 1..Len(atts) |->
                       send_sub_attachment(atts[a], row.id, subs[n].id)]
          ELSE <<>>)
         \o PairUploads(row, order, subs, n + 1)

\* line 91 raises KeyError: the row's name is no key of the ordering index
OrderLookupFails(row) ==
    /\ Accepted(row)
    /\ ~HasOwnAttachments(row)
    /\ row.sub_results # None
    /\ \/ row.automated_test_name = None
       \/ Get(row.automated_test_name) \notin DOMAIN test_name_order

\* lines 79-101 with "if" for the "elif" of line 90: both paths are taken
RowUploadsBothPaths(row) ==
    IF ~Accepted(row) \/ OrderLookupFails(row) THEN <<>>
    ELSE (IF HasOwnAttachments(row) THEN OwnUploads(row) ELSE <<>>)
         \o (IF row.sub_results # None
                 /\ Get(row.automated_test_name) \in DOMAIN test_name_order
              THEN PairUploads(row, test_name_order[Get(row.automated_test_name)],
                               Get(row.sub_results), 1)
              ELSE <<>>)

\* lines 75-101: the requests one iteration of the loop makes for a row when
\* none of them fails, each attachment whose stream cannot be built standing
\* as the exception it raises
RowUploads(row) ==
    IF ~Accepted(row) \/ OrderLookupFails(row) THEN <<>>
    ELSE IF HasOwnAttachments(row) THEN OwnUploads(row)
    ELSE IF row.sub_results # None
         THEN PairUploads(row, test_name_order[Get(row.automated_test_name)],
                          Get(row.sub_results), 1)
         ELSE <<>>

\* lines 94-95: the warnings one iteration logs
RowWarnings(row) ==
    IF /\ Accepted(row)
       /\ ~HasOwnAttachments(row)
       /\ row.sub_results # None
       /\ ~OrderLookupFails(row)
       /\ Len(test_name_order[Get(row.automated_test_name)]) # Len(Get(row.sub_results))
    THEN 1 ELSE 0

\* the requests of a list, marked with how each one ended
Marked(requests, ok) ==
    [n \in 1..Len(requests) |->
        [call |-> requests[n].call, file_name |-> requests[n].file_name,
         stream |-> requests[n].stream, result_id |-> requests[n].result_id,
         sub_result_id |-> requests[n].sub_result_id, ok |-> ok]]

\* the answers the service may give for one submitted entry at position k:
\* the row is rejected (-1) or given an identifier, its name is echoed, and
\* the sub-results of an accepted group come back numbered by position, as
\* many as were sent, one fewer, one more, or not at all
RowAnswers(e, k) ==
    IF e = None
    THEN {[id |-> -1, automated_test_name |-> None, sub_results |-> None]}
    ELSE LET node == Get(e)
             sent == IF node.sub_results = None THEN 0 ELSE Len(Get(node.sub_results))
             echo(c) == Some([n \in 1..c |-> [id |-> n]])
         IN  {[id |-> -1, automated_test_name |-> Some(node.automated_test_name),
               sub_results |-> IF node.sub_results = None THEN None ELSE echo(sent)]}
             \cup
             {[id |-> 100 + k, automated_test_name |-> Some(node.automated_test_name),
               sub_results |-> sr] :
                 sr \in IF node.sub_results = None THEN {None}
                        ELSE {None} \cup {echo(c) : c \in {sent - 1, sent, sent + 1}}}

RECURSIVE AnswersUpTo(_, _)
\* the answers the service may give for the first k entries of a submitted
\* list
AnswersUpTo(nodes, k) ==
    IF k = 0 THEN {<<>>}
    ELSE {Append(a, r) : a \in AnswersUpTo(nodes, k - 1),
                         r \in RowAnswers(nodes[k], k)}

\* the answers the service may give for a submitted list: one row per entry,
\* in the order submitted
ServiceAnswers(nodes) == AnswersUpTo(nodes, Len(nodes))

\* line 70 called once more after it failed
SubmitCallsRetried(calls, nodes) == Append(Append(calls, nodes), nodes)

\* line 70: the one call of add_test_results_to_test_run
SubmitCalls(calls, nodes) == Append(calls, nodes)

\* the access_token argument the publisher may be built with (line 24):
\* none, an empty text, a token
AccessTokens == {None, Some(<<>>), Some(<<"t">>)}

\* what the environment may hold for VSTS_PAT: nothing, or a token
VstsPat == {None, Some(<<"p">>)}

\* line 233: the truth value of self.access_token
HasAccessToken(token) == token # None /\ Get(token) # <<>>

\* lines 232-237, given the value get_env finds for VSTS_PAT
get_credentials(token, pat) ==
    IF HasAccessToken(token)
    THEN [type |-> "BasicTokenAuthentication", access_token |-> Get(token)]
    ELSE [type |-> "BasicAuthentication", username |-> "ignored", password |-> pat]

\* lines 67-68: the credentials are built and the client is obtained
GetClient ==
    /\ pc = "publish_results"
    /\ \E env \in VstsPat :
          /\ HasAccessToken(access_token) \/ env # None
          /\ credentials' =
                Some(get_credentials(access_token,
                                     IF env = None THEN <<>> ELSE Get(env)))
    /\ pc' = "add_test_results"
    /\ UNCHANGED <<entry, results, singlePass, consumed, results_with_attachments,
                   test_case_results, test_name_order, access_token>>
    /\ UNCHANGED convertVars
    /\ UNCHANGED publishVars
    /\ UNCHANGED junitVars

\* line 236 reached without access token while VSTS_PAT is not set: get_env
\* (helpers, outside these sources) raises and nothing catches it
GetCredentialsRaises ==
    /\ pc = "publish_results"
    /\ ~HasAccessToken(access_token)
    /\ \E env \in VstsPat : env = None
    /\ pc' = "raised"
    /\ error' = "get_credentials"
    /\ UNCHANGED <<entry, results, singlePass, consumed, results_with_attachments,
                   test_case_results, test_name_order>>
    /\ UNCHANGED convertVars
    /\ UNCHANGED <<submitted, published_results, j, handled, uploads, warnings>>
    /\ UNCHANGED junitVars
    /\ UNCHANGED connectionVars

\* line 68: get_client raises after the credentials were built
GetClientRaises ==
    /\ pc = "publish_results"
    /\ \E env \in VstsPat :
          /\ HasAccessToken(access_token) \/ env # None
          /\ credentials' =
                Some(get_credentials(access_token,
                                     IF env = None THEN <<>> ELSE Get(env)))
    /\ pc' = "raised"
    /\ error' = "get_client"
    /\ UNCHANGED <<entry, results, singlePass, consumed, results_with_attachments,
                   test_case_results, test_name_order, access_token>>
    /\ UNCHANGED convertVars
    /\ UNCHANGED <<submitted, published_results, j, handled, uploads, warnings>>
    /\ UNCHANGED junitVars

\* line 70: the submission call raises
SubmitRaises ==
    /\ pc = "add_test_results"
    /\ submitted' = SubmitCalls(submitted, test_case_results)
    /\ pc' = "raised"
    /\ error' = "submit"
    /\ UNCHANGED <<entry, results, singlePass, consumed, results_with_attachments,
                   test_case_results, test_name_order>>
    /\ UNCHANGED convertVars
    /\ UNCHANGED <<published_results, j, handled, uploads, warnings>>
    /\ UNCHANGED junitVars
    /\ UNCHANGED connectionVars

\* line 70: the submission call returns the published rows
SubmitReturns ==
    /\ pc = "add_test_results"
    /\ submitted' = SubmitCalls(submitted, test_case_results)
    /\ published_results' \in ServiceAnswers(test_case_results)
    /\ j' = 1
    /\ pc' = "attachments"
    /\ UNCHANGED <<entry, results, singlePass, consumed, results_with_attachments,
                   test_case_results, test_name_order>>
    /\ UNCHANGED convertVars
    /\ UNCHANGED <<handled, uploads, warnings, error>>
    /\ UNCHANGED junitVars
    /\ UNCHANGED connectionVars

\* every stream of a plan can be built
Complete(plan) == \A n \in 1..Len(plan) : ~Raised(plan[n])

\* the requests of a plan that come before the first attachment whose
\* stream cannot be built
Sendable(plan) ==
    SubSeq(plan, 1, IF \E n \in 1..Len(plan) : Raised(plan[n])
                    THEN (CHOOSE n \in 1..Len(plan) :
                              /\ Raised(plan[n])
                              /\ \A m \in 1..(n - 1) : ~Raised(plan[m])) - 1
                    ELSE Len(plan))

\* an upload failure caught, the loop going on with the next row
UploadFailureSwallowed(row_index) ==
    [pc |-> "attachments", error |-> "none", j |-> row_index + 1]

\* lines 84 and 101: the exception of a request is not caught
UploadFailure(row_index) ==
    [pc |-> "raised", error |-> "upload", j |-> row_index]

\* lines 72-101: one iteration of the loop, every stream built and every
\* request succeeding
PublishRow ==
    /\ pc = "attachments"
    /\ j <= Len(published_results)
    /\ LET row == published_results[j]
       IN  /\ Complete(RowUploads(row))
           /\ uploads' = uploads \o Marked(RowUploads(row), TRUE)
           /\ warnings' = warnings + RowWarnings(row)
           /\ handled' = IF Accepted(row) THEN handled \cup {j} ELSE handled
           /\ IF OrderLookupFails(row)
              THEN pc' = "raised" /\ error' = "KeyError" /\ j' = j
              ELSE pc' = pc /\ error' = error /\ j' = j + 1
    /\ UNCHANGED <<entry, results, singlePass, consumed, results_with_attachments,
                   test_case_results, test_name_order>>
    /\ UNCHANGED convertVars
    /\ UNCHANGED <<submitted, published_results>>
    /\ UNCHANGED junitVars
    /\ UNCHANGED connectionVars

\* lines 72-101: one iteration of the loop in which request number f raises
PublishRowUploadFails ==
    /\ pc = "attachments"
    /\ j <= Len(published_results)
    /\ LET row == published_results[j]
           plan == Sendable(RowUploads(row))
       IN  \E f \in 1..Len(plan) :
             /\ uploads' = uploads \o Marked(SubSeq(plan, 1, f - 1), TRUE)
                                    \o Marked(<<plan[f]>>, FALSE)
             /\ warnings' = warnings + RowWarnings(row)
             /\ handled' = handled \cup {j}
             /\ pc' = UploadFailure(j).pc
             /\ error' = UploadFailure(j).error
             /\ j' = UploadFailure(j).j
    /\ UNCHANGED <<entry, results, singlePass, consumed, results_with_attachments,
                   test_case_results, test_name_order>>
    /\ UNCHANGED convertVars
    /\ UNCHANGED <<submitted, published_results>>
    /\ UNCHANGED junitVars
    /\ UNCHANGED connectionVars

\* lines 49 and 58: one iteration of the loop in which the stream of an
\* attachment cannot be built; the requests before it are made, every one
\* succeeding, its own request is never made and the exception ends the call
PublishRowEncodeFails ==
    /\ pc = "attachments"
    /\ j <= Len(published_results)
    /\ LET row == published_results[j]
           plan == RowUploads(row)
       IN  /\ ~Complete(plan)
           /\ uploads' = uploads \o Marked(Sendable(plan), TRUE)
           /\ warnings' = warnings + RowWarnings(row)
           /\ handled' = handled \cup {j}
           /\ pc' = "raised"
           /\ error' = plan[Len(Sendable(plan)) + 1].raises
           /\ j' = j
    /\ UNCHANGED <<entry, results, singlePass, consumed, results_with_attachments,
                   test_case_results, test_name_order>>
    /\ UNCHANGED convertVars
    /\ UNCHANGED <<submitted, published_results>>
    /\ UNCHANGED junitVars
    /\ UNCHANGED connectionVars

\* line 72: the loop is over and publish_results, then upload_batch, return
PublishDone ==
    /\ pc = "attachments"
    /\ j > Len(published_results)
    /\ pc' = "done"
    /\ UNCHANGED <<entry, results, singlePass, consumed, results_with_attachments,
                   test_case_results, test_name_order>>
    /\ UNCHANGED convertVars
    /\ UNCHANGED publishVars
    /\ UNCHANGED junitVars
    /\ UNCHANGED connectionVars

\* upload_batch called with a list or with a generator of records
Init ==
    /\ entry = "upload_batch"
    /\ pc = "upload_batch"
    /\ results \in SeqUpTo(BatchInputs, MaxBatch)
    /\ singlePass \in BOOLEAN
    /\ access_token \in AccessTokens
    /\ Fresh
    /\ NoDocument

Next ==
    \/ CollectAttachments
    \/ ListResults
    \/ ConvertRecord
    \/ ConvertReturn
    \/ GetClient
    \/ GetCredentialsRaises
    \/ GetClientRaises
    \/ SubmitRaises
    \/ SubmitReturns
    \/ PublishRow
    \/ PublishRowUploadFails
    \/ PublishRowEncodeFails
    \/ PublishDone

Spec == Init /\ [][Next]_vars

----------------------------------------------------------------------------
(* Properties of convert_results.                                          *)

\* convert_results has returned
ConvertReturned == pc \notin {"upload_batch", "convert_results", "convert_loop"}

\* an entry of the returned list that is the parent of a data-driven group
IsGrouped(e) == e # None /\ Get(e).result_group_type = Some("dataDriven")

\* an entry of the returned list that is a standalone node
IsStandalone(e) == e # None /\ Get(e).result_group_type = None

\* item k of the input of convert_results is a record
IsRecord(k) == unconverted_results[k] # None

InputRecord(k) == Get(unconverted_results[k])

\* item k is a data-driven record whose outcome the converters recognize
IsVariant(k) ==
    /\ IsRecord(k)
    /\ is_data_driven_test(InputRecord(k).name)
    /\ InputRecord(k).result \in Recognized

BaseOf(k) == get_ddt_base_name(InputRecord(k).name)

\* item k is a record that is not data driven
IsStandaloneRecord(k) == IsRecord(k) /\ ~is_data_driven_test(InputRecord(k).name)

\* the input positions at which a base name is seen for the first time with
\* a recognized outcome, in input order
FirstSeen ==
    SelectSeq(Indexes(Len(unconverted_results)),
              LAMBDA k : IsVariant(k)
                         /\ ~\E m \in 1..(k - 1) : IsVariant(m) /\ BaseOf(m) = BaseOf(k))

\* the input positions of the records that are not data driven
StandalonePositions ==
    SelectSeq(Indexes(Len(unconverted_results)), LAMBDA k : IsStandaloneRecord(k))

\* the names of the recognized variants of a base name, in input order
VariantNames(base) ==
    LET at == SelectSeq(Indexes(Len(unconverted_results)),
                        LAMBDA k : IsVariant(k) /\ BaseOf(k) = base)
    IN  [n \in 1..Len(at) |-> InputRecord(at[n]).name]

\* C1: every grouped node returned by convert_results is Failed exactly
\* when one of its sub-results is Failed, and otherwise has the outcome of
\* its first sub-result, which is the mapped outcome (Passed, NotExecuted)
\* of an input record of that name.
C1_GroupOutcome ==
    ConvertReturned =>
        \A k \in DOMAIN test_case_results :
            IsGrouped(test_case_results[k]) =>
                LET node == Get(test_case_results[k])
                    subs == Get(node.sub_results)
                    anyFailed == \E n \in DOMAIN subs : subs[n].outcome = "Failed"
                IN  /\ Len(subs) >= 1
                    /\ node.outcome = "Failed" <=> anyFailed
                    /\ ~anyFailed =>
                          /\ node.outcome = subs[1].outcome
                          /\ node.outcome \in {"Passed", "NotExecuted"}
                          /\ \E m \in DOMAIN unconverted_results :
                                /\ IsVariant(m)
                                /\ InputRecord(m).name = subs[1].display_name
                                /\ OutcomeOf(InputRecord(m).result) = node.outcome

\* C1 witness: a group whose first variant passed and whose second failed
C1_Witness ==
    /\ ConvertReturned
    /\ \E k \in DOMAIN test_case_results :
          /\ IsGrouped(test_case_results[k])
          /\ LET subs == Get(Get(test_case_results[k]).sub_results)
             IN  /\ Len(subs) >= 2
                 /\ subs[1].outcome = "Passed"
                 /\ subs[2].outcome = "Failed"

\* C2: under every base name of the input, the returned ordering index
\* lists the names of the (converted) data-driven variants of that base
\* name, in input order.
C2_OrderingListsVariants ==
    ConvertReturned =>
        \A k \in DOMAIN unconverted_results :
            IsVariant(k) =>
                /\ BaseOf(k) \in DOMAIN test_name_order
                /\ test_name_order[BaseOf(k)] = VariantNames(BaseOf(k))

\* the input of the example of C3: A(1) passes, A(2) fails, B passes
C3_ExampleInput ==
    <<Some(TestResult(nA1, "Pass", <<>>)), Some(TestResult(nA2, "Fail", <<>>)),
      Some(TestResult(nB, "Pass", <<>>))>>

\* item k is a data-driven record, whatever its outcome
IsDataDriven(k) == IsRecord(k) /\ is_data_driven_test(InputRecord(k).name)

\* the input positions at which the base name of a returned group is seen
\* for the first time, whatever the outcome of the record seen, in input
\* order
FirstSight ==
    SelectSeq(Indexes(Len(unconverted_results)),
              LAMBDA k : /\ IsDataDriven(k)
                         /\ \E m \in 1..Len(unconverted_results) :
                               IsVariant(m) /\ BaseOf(m) = BaseOf(k)
                         /\ ~\E m \in 1..(k - 1) :
                               IsDataDriven(m) /\ BaseOf(m) = BaseOf(k))

\* the returned list is one grouped node for each position of first, in
\* that order and of that position's base name, followed by one position
\* per standalone record in input order, which holds that record's node;
\* the example input yields [A (Failed; A(1) Passed, A(2) Failed),
\* B (Passed)] and the ordering {A: [A(1), A(2)], B: []}
NodesOrderedBy(first) ==
    LET g == Len(first)
        s == Len(StandalonePositions)
    IN  /\ Len(test_case_results) = g + s
        /\ \A n \in 1..g :
              /\ IsGrouped(test_case_results[n])
              /\ Get(test_case_results[n]).automated_test_name = BaseOf(first[n])
        /\ \A n \in 1..s :
              LET e == test_case_results[g + n]
                  r == InputRecord(StandalonePositions[n])
              IN  /\ r.result \in Recognized => e # None
                  /\ e # None =>
                        /\ IsStandalone(e)
                        /\ Get(e).sub_results = None
                        /\ Get(e).automated_test_name = r.name
                        /\ Get(e).outcome = OutcomeOf(r.result)
        /\ unconverted_results = C3_ExampleInput =>
              /\ Get(test_case_results[1]).automated_test_name = nA
              /\ Get(test_case_results[1]).outcome = "Failed"
              /\ [n \in 1..2 |->
                    <<Get(Get(test_case_results[1]).sub_results)[n].display_name,
                      Get(Get(test_case_results[1]).sub_results)[n].outcome>>]
                 = <<(<<nA1, "Passed">>), (<<nA2, "Failed">>)>>
              /\ Get(test_case_results[2]).automated_test_name = nB
              /\ Get(test_case_results[2]).outcome = "Passed"
              /\ DOMAIN test_name_order = {nA, nB}
              /\ test_name_order[nA] = <<nA1, nA2>>
              /\ test_name_order[nB] = <<>>

\* C3: the returned list is the grouped nodes, in the order of the input
\* positions at which their base names were first seen, followed by the
\* standalone nodes in input order; the example holds.
C3_NodeOrder == ConvertReturned => NodesOrderedBy(FirstSight)

\* C3, amended: the returned list is the grouped nodes, in the order of
\* the input positions of the records that created them, the first record
\* of each base name with a recognized outcome, followed by the standalone
\* nodes in input order; the example holds.  A data-driven record with an
\* unrecognized outcome does not make its base name seen.
C3_NodeOrderOfGroups == ConvertReturned => NodesOrderedBy(FirstSeen)

\* C3 witness: a data-driven record with an unrecognized outcome comes
\* first in the input, and the group of its base name, created by a later
\* record, follows the group of another base name in the returned list
C3_Witness ==
    /\ ConvertReturned
    /\ Len(FirstSeen) = 2
    /\ IsDataDriven(1)
    /\ ~IsVariant(1)
    /\ BaseOf(1) = BaseOf(FirstSeen[2])
    /\ IsGrouped(test_case_results[1])
    /\ IsGrouped(test_case_results[2])
    /\ Get(test_case_results[2]).automated_test_name = BaseOf(1)


\* the number of sub-results carried by the entries of a returned list
RECURSIVE SubResultCount(_)
SubResultCount(nodes) ==
    IF nodes = <<>> THEN 0
    ELSE (IF IsGrouped(Head(nodes)) THEN Len(Get(Get(Head(nodes)).sub_results)) ELSE 0)
         + SubResultCount(Tail(nodes))

\* C4: a record with an unrecognized outcome leaves no entry in the
\* returned list, neither a node nor a sub-result nor an empty
\* placeholder, and the other records are converted: the list holds nodes
\* only, and its standalone nodes and sub-results are as many as the
\* records with a recognized outcome.
C4_UnrecognizedLeavesNoEntry ==
    ConvertReturned =>
        /\ \A k \in DOMAIN test_case_results : test_case_results[k] # None
        /\ Cardinality({k \in DOMAIN test_case_results : IsStandalone(test_case_results[k])})
             + SubResultCount(test_case_results)
           = Cardinality({k \in DOMAIN unconverted_results :
                            IsRecord(k) /\ InputRecord(k).result \in Recognized})

----------------------------------------------------------------------------
(* Properties of publish_results and upload_batch.                         *)

\* the submission call has returned the published rows
Publishing ==
    pc \in {"attachments", "done"}
    \/ (pc = "raised" /\ error \notin {"get_credentials", "get_client", "submit"})

\* the number of published rows whose loop iteration has run to its end
RowsDone == IF pc = "done" THEN Len(published_results) ELSE j - 1

\* the upload requests made against published row k, in the order made
UploadsOf(k) ==
    SelectSeq(uploads, LAMBDA u : u.result_id = published_results[k].id)

\* published row k carries its own name as a key of the attachments map
OwnPath(k) ==
    Get(published_results[k].automated_test_name) \in DOMAIN results_with_attachments

\* published row k was accepted and is handled through its sub-results
SubPath(k) ==
    /\ published_results[k].id # -1
    /\ ~OwnPath(k)
    /\ published_results[k].sub_results # None

OrderOf(k) == test_name_order[Get(published_results[k].automated_test_name)]

SubsOf(k) == Get(published_results[k].sub_results)

\* C5: a rejected row (identifier -1) gets no upload and raises no error,
\* and attachment handling is applied to exactly the accepted rows, those
\* after a rejected row included: with one row of N rejected, to N-1 rows.
C5_RejectedRowsSkipped ==
    /\ \A n \in DOMAIN uploads : uploads[n].result_id # -1
    /\ Publishing =>
          /\ \A k \in 1..RowsDone : k \in handled <=> published_results[k].id # -1
          /\ \A k \in handled : published_results[k].id # -1
          /\ pc = "raised" => published_results[j].id # -1
          /\ \A k \in 1..RowsDone :
                (published_results[k].id # -1 /\ OwnPath(k)) => UploadsOf(k) # <<>>
          /\ (pc = "done"
               /\ Cardinality({k \in DOMAIN published_results :
                                  published_results[k].id = -1}) = 1)
                => Cardinality(handled) = Len(published_results) - 1

\* C5 witness: the first of two rows was rejected although its name has
\* attachments, and the second row got its uploads
C5_Witness ==
    /\ pc = "done"
    /\ Len(published_results) = 2
    /\ published_results[1].id = -1
    /\ published_results[1].automated_test_name # None
    /\ OwnPath(1)
    /\ published_results[2].id # -1
    /\ UploadsOf(2) # <<>>
    /\ handled = {2}

\* the errors of lines 49 and 58: the text of an attachment is None, or
\* holds a surrogate
EncodeErrors == {"TypeError", "UnicodeEncodeError"}

\* C6: a row whose returned sub-results differ in number from its ordering
\* entry raises nothing (only an attachment upload that fails, its request
\* or the encoding of its text, ends the loop early);
\* one warning is logged for each such row, and exactly the first
\* min(len(ordering), len(sub_results)) positions are paired: every upload
\* of the row goes to one of them, and each of them whose name has
\* attachments gets one upload per attachment.
C6_LengthMismatchTolerated ==
    Publishing =>
        /\ pc = "raised" => error \in {"upload"} \cup EncodeErrors
        /\ warnings = Cardinality({k \in handled :
                            SubPath(k) /\ Len(OrderOf(k)) # Len(SubsOf(k))})
        /\ \A k \in 1..RowsDone :
              SubPath(k) =>
                LET pairs == 1..Min(Len(OrderOf(k)), Len(SubsOf(k)))
                    withAttachments ==
                        {n \in pairs : OrderOf(k)[n] \in DOMAIN results_with_attachments}
                    U == UploadsOf(k)
                IN  /\ \A u \in DOMAIN U :
                          \E n \in withAttachments :
                              U[u].sub_result_id = Some(SubsOf(k)[n].id)
                    /\ \A n \in withAttachments :
                          Cardinality({u \in DOMAIN U :
                                          U[u].sub_result_id = Some(SubsOf(k)[n].id)})
                          = Len(results_with_attachments[OrderOf(k)[n]].attachments)

\* C6 witness: a group with two names in its ordering entry came back with
\* one sub-result, and the one pair was uploaded
C6_Witness ==
    /\ pc = "done"
    /\ \E k \in DOMAIN published_results :
          /\ SubPath(k)
          /\ Len(OrderOf(k)) = 2
          /\ Len(SubsOf(k)) = 1
          /\ UploadsOf(k) # <<>>
          /\ warnings >= 1

\* C7: publish_results makes one submission call, with the whole node
\* list, before any upload and without retrying; when the call fails the
\* error propagates and nothing is uploaded.
C7_SingleSubmission ==
    /\ Len(submitted) <= 1
    /\ pc \in {"attachments", "done", "raised"} =>
          /\ Len(submitted) = 1
          /\ submitted[1] = test_case_results
    /\ uploads # <<>> => (Len(submitted) = 1 /\ error # "submit")
    /\ error = "submit" =>
          /\ pc = "raised"
          /\ uploads = <<>>
          /\ published_results = <<>>
          /\ handled = {}

\* publish_results ended at lines 67-68, before the submission call
FailedConnecting == error \in {"get_credentials", "get_client"}

\* C7, amended: a call of publish_results that obtains its client makes one
\* submission call, with the whole node list, before any upload and without
\* retrying, and when that call fails the error propagates and nothing is
\* uploaded; a call that fails to build its credentials or to obtain its
\* client makes no submission call and no upload.
C7_SingleSubmissionOnceConnected ==
    /\ Len(submitted) <= 1
    /\ (pc \in {"attachments", "done", "raised"} /\ ~FailedConnecting) =>
          /\ Len(submitted) = 1
          /\ submitted[1] = test_case_results
    /\ pc \in {"upload_batch", "convert_results", "convert_loop", "publish_results",
                "add_test_results"} => submitted = <<>>
    /\ uploads # <<>> => (Len(submitted) = 1 /\ error # "submit" /\ ~FailedConnecting)
    /\ FailedConnecting =>
          /\ pc = "raised"
          /\ submitted = <<>>
          /\ uploads = <<>>
          /\ published_results = <<>>
          /\ handled = {}
    /\ error = "submit" =>
          /\ pc = "raised"
          /\ uploads = <<>>
          /\ published_results = <<>>
          /\ handled = {}

\* C7 witness: the submission of a non-empty node list failed while records
\* had attachments to upload
C7_Witness ==
    /\ pc = "raised"
    /\ error = "submit"
    /\ Len(submitted) = 1
    /\ \E k \in DOMAIN submitted[1] : submitted[1][k] # None
    /\ DOMAIN results_with_attachments # {}

\* some upload request of a log failed
HasFailedUpload(log) == \E n \in DOMAIN log : ~log[n].ok

\* C8: a failing upload ends publish_results at once with that error: the
\* failed request is the last one ever made, and the requests made before
\* it stay made (the log of requests only grows).  An attachment whose
\* text cannot be encoded (it is None or holds a surrogate) fails before
\* its request: the call ends with that error, the row's later requests
\* unmade.
C8_UploadFailureAborts ==
    [][/\ Len(uploads') >= Len(uploads)
       /\ SubSeq(uploads', 1, Len(uploads)) = uploads
       /\ HasFailedUpload(uploads) => uploads' = uploads
       /\ HasFailedUpload(uploads') =>
             /\ pc' = "raised"
             /\ error' = "upload"
             /\ \A n \in 1..(Len(uploads') - 1) : uploads'[n].ok
       /\ (pc = "attachments" /\ error' \in EncodeErrors) =>
             /\ pc' = "raised"
             /\ ~HasFailedUpload(uploads')
             /\ Len(uploads') - Len(uploads)
                   < Len(RowUploads(published_results[j]))]_vars

\* C8 witness: the second upload of the batch failed after the first had
\* succeeded, and the next row still had uploads to make
C8_Witness ==
    /\ pc = "raised"
    /\ error = "upload"
    /\ Len(uploads) >= 2
    /\ uploads[1].ok
    /\ j < Len(published_results)
    /\ RowUploads(published_results[j + 1]) # <<>>

\* C9: an accepted row takes one of two paths.  A row whose own name is a
\* key of the attachments map gets each attachment of that entry uploaded
\* against its identifier, in order, and no sub-result upload.  Any other
\* row with sub-results gets, for the i-th ordering name paired with the
\* i-th returned sub-result and present in the attachments map, each
\* attachment uploaded against the row identifier and that sub-result's
\* identifier, pair after pair.  A row with neither gets nothing.
C9_AttachmentPaths ==
    Publishing =>
        \A k \in 1..RowsDone :
            published_results[k].id # -1 =>
                LET U == UploadsOf(k)
                IN  IF OwnPath(k)
                    THEN LET atts == results_with_attachments[
                                        Get(published_results[k].automated_test_name)
                                     ].attachments
                         IN  /\ Len(U) = Len(atts)
                             /\ \A n \in DOMAIN U :
                                   /\ U[n].call = "create_test_result_attachment"
                                   /\ U[n].sub_result_id = None
                                   /\ U[n].file_name = atts[n].name
                                   /\ U[n].ok
                    ELSE IF published_results[k].sub_results # None
                    THEN /\ \A n \in DOMAIN U :
                               /\ U[n].call = "create_test_sub_result_attachment"
                               /\ \E m \in 1..Min(Len(OrderOf(k)), Len(SubsOf(k))) :
                                     /\ U[n].sub_result_id = Some(SubsOf(k)[m].id)
                                     /\ OrderOf(k)[m] \in DOMAIN results_with_attachments
                                     /\ \E a \in DOMAIN results_with_attachments[
                                                        OrderOf(k)[m]].attachments :
                                           results_with_attachments[OrderOf(k)[m]]
                                               .attachments[a].name = U[n].file_name
                         /\ \A m \in 1..Min(Len(OrderOf(k)), Len(SubsOf(k))) :
                               OrderOf(k)[m] \in DOMAIN results_with_attachments =>
                                 LET atts == results_with_attachments[OrderOf(k)[m]].attachments
                                     V == SelectSeq(U, LAMBDA u :
                                            u.sub_result_id = Some(SubsOf(k)[m].id))
                                 IN  /\ Len(V) = Len(atts)
                                     /\ \A a \in DOMAIN V : V[a].file_name = atts[a].name
                         /\ \A n \in 1..(Len(U) - 1) :
                               Get(U[n].sub_result_id) <= Get(U[n + 1].sub_result_id)
                    ELSE U = <<>>

\* C9 witness: one batch with a row uploaded under its own name and a row
\* uploaded through its sub-results
C9_Witness ==
    /\ pc = "done"
    /\ \E k \in DOMAIN published_results :
          /\ published_results[k].id # -1
          /\ OwnPath(k)
          /\ Len(UploadsOf(k)) = 2
    /\ \E k \in DOMAIN published_results :
          /\ SubPath(k)
          /\ Len(UploadsOf(k)) = 2

\* the records of a sequence of items, without its None items
RecordsOf(items) == SelectSeq(items, LAMBDA x : x # None)

\* C10: upload_batch, given the single-pass sequence a format parser
\* yields, hands every record of it to the grouping loop, and submits one
\* standalone node or sub-result for each record with a recognized outcome.
C10_EveryRecordGrouped ==
    (entry = "upload_batch" /\ singlePass) =>
        /\ pc \notin {"upload_batch", "convert_results"} =>
              RecordsOf(unconverted_results) = RecordsOf(results)
        /\ Len(submitted) >= 1 =>
              Cardinality({k \in DOMAIN submitted[1] : IsStandalone(submitted[1][k])})
                + SubResultCount(submitted[1])
              = Cardinality({k \in DOMAIN results :
                               results[k] # None /\ Get(results[k]).result \in Recognized})

----------------------------------------------------------------------------
(* Further properties of upload_batch and convert_results.                 *)

\* C11: None items are dropped silently: the attachments map, the node
\* list and the ordering index are those of the sequence with its None
\* items removed, and no error is raised before the submission.
C11_NoneDropped ==
    /\ pc # "upload_batch" =>
          results_with_attachments = AttachmentsByName(RecordsOf(results))
    /\ (~singlePass /\ pc \notin {"upload_batch", "convert_results"}) =>
          unconverted_results = results
    /\ ConvertReturned =>
          LET st == ConvertAll(EmptyGrouping, RecordsOf(unconverted_results))
          IN  /\ test_case_results =
                    ReturnedNodes(st.data_driven_tests, st.non_data_driven_tests)
              /\ test_name_order = st.test_name_ordering
    /\ pc \in {"upload_batch", "convert_results", "convert_loop", "publish_results"} =>
          error = "none"

\* C11 witness: a list that starts with None and goes on with a record
\* that has attachments was converted
C11_Witness ==
    /\ ConvertReturned
    /\ ~singlePass
    /\ Len(results) = 2
    /\ results[1] = None
    /\ results[2] # None
    /\ Len(test_case_results) = 1
    /\ test_case_results[1] # None
    /\ DOMAIN results_with_attachments # {}


\* C12: a record converts to a node exactly when it converts to a
\* sub-result, and the two representations carry the same duration in
\* milliseconds, the same mapped outcome and the same correlation comment;
\* a group node created from its first variant agrees with that variant's
\* sub-result on duration and comment.  The records are compared when the
\* call starts: the argument does not change afterwards.
C12_ConversionsAgree ==
    /\ \A k \in 1..Len(results) :
          (pc = "convert_results" /\ results[k] # None) =>
             LET r == Get(results[k])
                 node == convert_result(r)
                 sub == convert_to_sub_test(r)
             IN  /\ (node = None) <=> (sub = None)
                 /\ (node = None) <=> (r.result \notin Recognized)
                 /\ node # None =>
                       /\ Get(node).duration_in_ms = Get(sub).duration_in_ms
                       /\ Get(node).duration_in_ms = r.duration_seconds * 1000
                       /\ Get(node).outcome = Get(sub).outcome
                       /\ Get(node).comment = Get(sub).comment
    /\ \A k \in 1..Len(data_driven_tests) :
          LET g == data_driven_tests[k].value
              first == Get(g.sub_results)[1]
          IN  /\ g.duration_in_ms = first.duration_in_ms
              /\ g.comment = first.comment

\* C12 witness: a group made from a failed first variant was returned
C12_Witness ==
    /\ pc = "returned"
    /\ \E k \in 1..Len(test_case_results) :
          /\ IsGrouped(test_case_results[k])
          /\ Get(test_case_results[k]).outcome = "Failed"
          /\ Len(Get(Get(test_case_results[k]).sub_results)) = 1
          /\ Get(Get(test_case_results[k]).sub_results)[1].duration_in_ms =
                Get(test_case_results[k]).duration_in_ms


\* C15: failure propagation is monotonic: a group whose outcome is Failed
\* after some record keeps its place in the collection and is Failed after
\* every later record of the batch.
C15_FailureMonotonic ==
    [][\A k \in 1..Len(data_driven_tests) :
          data_driven_tests[k].value.outcome = "Failed" =>
             /\ k <= Len(data_driven_tests')
             /\ data_driven_tests'[k].key = data_driven_tests[k].key
             /\ data_driven_tests'[k].value.outcome = "Failed"]_vars

\* C15 witness: a Failed group took in a later variant that did not fail
C15_Witness ==
    \E k \in 1..Len(data_driven_tests) :
       LET g == data_driven_tests[k].value
           subs == Get(g.sub_results)
       IN  /\ g.outcome = "Failed"
           /\ Len(subs) >= 2
           /\ subs[Len(subs)].outcome # "Failed"


\* the loop of convert_results is at item i and handles it in this step
HandlesItem == pc = "convert_loop" /\ i <= Len(unconverted_results) /\ i' = i + 1

\* C16, the returned nodes: every node has an ordering entry under its own
\* name, and a standalone node is not marked dataDriven and has no
\* sub-results
C16_NodesRegistered ==
    /\ \A k \in 1..Len(non_data_driven_tests) :
          non_data_driven_tests[k] # None =>
             LET n == Get(non_data_driven_tests[k])
             IN  /\ n.result_group_type = None
                 /\ n.sub_results = None
                 /\ n.automated_test_name \in DOMAIN test_name_ordering
    /\ \A k \in 1..Len(data_driven_tests) :
          data_driven_tests[k].value.automated_test_name \in DOMAIN test_name_ordering
    /\ ConvertReturned =>
          \A k \in 1..Len(test_case_results) :
             test_case_results[k] # None =>
                Get(test_case_results[k]).automated_test_name \in DOMAIN test_name_order

\* C16, one record: a standalone record registers an empty ordering entry
\* under its name; a data-driven record with a new base name creates a node
\* named by the base name, marked dataDriven, with one sub-result, and an
\* ordering entry under the base name holding the record's original name
C16_RecordRegistered ==
    (HandlesItem /\ IsRecord(i)) =>
       LET r == InputRecord(i)
           base_name == get_ddt_base_name(r.name)
           n == Len(data_driven_tests)
       IN  /\ ~is_data_driven_test(r.name) =>
                /\ r.name \in DOMAIN test_name_ordering'
                /\ test_name_ordering'[r.name] = <<>>
                /\ Len(non_data_driven_tests') = Len(non_data_driven_tests) + 1
                /\ data_driven_tests' = data_driven_tests
           /\ (IsVariant(i) /\ ~HasKey(data_driven_tests, base_name)) =>
                /\ Len(data_driven_tests') = n + 1
                /\ SubSeq(data_driven_tests', 1, n) = data_driven_tests
                /\ data_driven_tests'[n + 1].key = base_name
                /\ LET g == data_driven_tests'[n + 1].value
                   IN  /\ g.automated_test_name = base_name
                       /\ g.result_group_type = Some("dataDriven")
                       /\ Len(Get(g.sub_results)) = 1
                       /\ Get(g.sub_results)[1].display_name = r.name
                /\ base_name \in DOMAIN test_name_ordering'
                /\ test_name_ordering'[base_name] = <<r.name>>
                /\ non_data_driven_tests' = non_data_driven_tests

\* C16: every node returned by convert_results has an ordering-index entry
\* under its own name; a standalone record registers an empty entry and
\* its node is never dataDriven and has no sub-results; a data-driven
\* record with a new base name creates the group node and an ordering
\* entry holding the original record name.
C16_OrderingEntries == []C16_NodesRegistered /\ [][C16_RecordRegistered]_vars

\* C16 witness: a standalone node and a group with one sub-result were
\* returned, each with its ordering entry
C16_Witness ==
    /\ pc = "returned"
    /\ Len(test_case_results) = 2
    /\ IsGrouped(test_case_results[1])
    /\ IsStandalone(test_case_results[2])
    /\ test_name_order[Get(test_case_results[2]).automated_test_name] = <<>>
    /\ Len(test_name_order[Get(test_case_results[1]).automated_test_name]) = 1


\* the sub-results of the group of a base name, <<>> when it has no group
SubResultsOfBase(base) ==
    IF HasKey(data_driven_tests, base)
    THEN Get(data_driven_tests[KeyIndex(data_driven_tests, base)].value.sub_results)
    ELSE <<>>

\* C17: Skip conversion is asymmetric: the standalone node of a Skip
\* record has outcome NotExecuted and the record's skip_reason as its
\* error message; the sub-result of a Skip record has outcome NotExecuted,
\* no error message and no stack trace.
C17_SkipAsymmetry ==
    /\ \A k \in 1..Len(StandalonePositions) :
          LET r == InputRecord(StandalonePositions[k])
          IN  (k <= Len(non_data_driven_tests) /\ r.result = "Skip") =>
                 /\ non_data_driven_tests[k] # None
                 /\ Get(non_data_driven_tests[k]).outcome = "NotExecuted"
                 /\ Get(non_data_driven_tests[k]).error_message = Some(Get(r.skip_reason))
                 /\ Get(non_data_driven_tests[k]).stack_trace = None
    /\ \A k \in 1..Len(unconverted_results) :
          (k < i /\ IsVariant(k) /\ InputRecord(k).result = "Skip") =>
             \E m \in 1..Len(SubResultsOfBase(BaseOf(k))) :
                LET s == SubResultsOfBase(BaseOf(k))[m]
                IN  /\ s.display_name = InputRecord(k).name
                    /\ s.outcome = "NotExecuted"
    /\ \A k \in 1..Len(data_driven_tests) :
          LET subs == Get(data_driven_tests[k].value.sub_results)
          IN  \A m \in 1..Len(subs) :
                 subs[m].outcome = "NotExecuted" =>
                    /\ subs[m].error_message = None
                    /\ subs[m].stack_trace = None

\* C17 witness: a skipped standalone record and a skipped later variant
\* were both converted
C17_Witness ==
    /\ pc = "returned"
    /\ \E k \in 1..Len(non_data_driven_tests) :
          /\ non_data_driven_tests[k] # None
          /\ Get(non_data_driven_tests[k]).outcome = "NotExecuted"
          /\ Get(non_data_driven_tests[k]).error_message # None
    /\ \E k \in 1..Len(data_driven_tests) :
          LET subs == Get(data_driven_tests[k].value.sub_results)
          IN  /\ Len(subs) = 2
              /\ subs[2].outcome = "NotExecuted"
              /\ subs[2].error_message = None


\* C18: after convert_results, for every grouped node the ordering entry
\* under the node's name is as long as the node's sub-result list and its
\* names are the display names of the sub-results, position by position.
C18_OrderingAligned ==
    pc = "returned" =>
       \A k \in 1..Len(test_case_results) :
          IsGrouped(test_case_results[k]) =>
             LET g == Get(test_case_results[k])
                 subs == Get(g.sub_results)
             IN  /\ g.automated_test_name \in DOMAIN test_name_order
                 /\ Len(test_name_order[g.automated_test_name]) = Len(subs)
                 /\ \A m \in 1..Len(subs) :
                       test_name_order[g.automated_test_name][m] = subs[m].display_name


\* the loop handles, in this step, a variant with a recognized outcome
\* whose base name already has a group
FoldsLaterVariant ==
    /\ HandlesItem
    /\ IsVariant(i)
    /\ HasKey(data_driven_tests, BaseOf(i))

\* C20: folding a later variant into an existing group appends one
\* sub-result to that parent and one name to that base name's ordering
\* entry and, when the variant failed, sets the parent's outcome to Failed;
\* the parent's other fields, every other group, the standalone nodes and
\* every other ordering entry are unchanged.
C20_FoldFrame ==
    [][FoldsLaterVariant =>
          LET r == InputRecord(i)
              base_name == BaseOf(i)
              n == KeyIndex(data_driven_tests, base_name)
              parent == data_driven_tests[n].value
              after == data_driven_tests'[n].value
          IN  /\ Len(data_driven_tests') = Len(data_driven_tests)
              /\ \A k \in 1..Len(data_driven_tests) :
                    k # n => data_driven_tests'[k] = data_driven_tests[k]
              /\ data_driven_tests'[n].key = base_name
              /\ Len(Get(after.sub_results)) = Len(Get(parent.sub_results)) + 1
              /\ SubSeq(Get(after.sub_results), 1, Len(Get(parent.sub_results)))
                    = Get(parent.sub_results)
              /\ Get(after.sub_results)[Len(Get(after.sub_results))]
                    = Get(convert_to_sub_test(r))
              /\ after.outcome = IF r.result = "Fail" THEN "Failed" ELSE parent.outcome
              /\ [after EXCEPT !.sub_results = None, !.outcome = "Passed"]
                    = [parent EXCEPT !.sub_results = None, !.outcome = "Passed"]
              /\ non_data_driven_tests' = non_data_driven_tests
              /\ DOMAIN test_name_ordering' = DOMAIN test_name_ordering
              /\ \A name \in DOMAIN test_name_ordering :
                    test_name_ordering'[name] =
                       IF name = base_name
                       THEN Append(test_name_ordering[name], r.name)
                       ELSE test_name_ordering[name]
              /\ UNCHANGED <<results, unconverted_results, test_case_results,
                             test_name_order>>]_vars

\* C20 witness: a group whose title and duration are those of its first
\* variant holds a second, failed variant, next to another node
C20_Witness ==
    /\ pc = "returned"
    /\ Len(test_case_results) = 2
    /\ IsGrouped(test_case_results[1])
    /\ LET g == Get(test_case_results[1])
           subs == Get(g.sub_results)
       IN  /\ Len(subs) = 2
           /\ subs[2].outcome = "Failed"
           /\ subs[1].outcome = "Passed"
           /\ g.outcome = "Failed"
           /\ g.test_case_title = subs[1].display_name
           /\ g.duration_in_ms = subs[1].duration_in_ms
           /\ g.duration_in_ms # subs[2].duration_in_ms


\* every record of the batch has a name of its own and a recognized outcome
DistinctRecognized ==
    /\ \A k \in 1..Len(results) :
          results[k] # None => Get(results[k]).result \in Recognized
    /\ \A k, m \in 1..Len(results) :
          (k # m /\ results[k] # None /\ results[m] # None) =>
             Get(results[k]).name # Get(results[m]).name

\* the service accepted every submitted node and echoed its name and its
\* sub-results, as many as were sent and in the order sent
AcceptedAndEchoed ==
    /\ Len(published_results) = Len(test_case_results)
    /\ \A k \in 1..Len(test_case_results) :
          /\ test_case_results[k] # None
          /\ published_results[k].id # -1
          /\ published_results[k].automated_test_name =
                Some(Get(test_case_results[k]).automated_test_name)
          /\ IF Get(test_case_results[k]).sub_results = None
             THEN published_results[k].sub_results = None
             ELSE /\ published_results[k].sub_results # None
                  /\ Len(Get(published_results[k].sub_results)) =
                        Len(Get(Get(test_case_results[k]).sub_results))

\* the requests that upload the attachments of one record against the node
\* or the sub-result that was made from it
UploadsDueTo(r) ==
    IF ~is_data_driven_test(r.name)
    THEN LET p == CHOOSE k \in 1..Len(test_case_results) :
                     /\ IsStandalone(test_case_results[k])
                     /\ Get(test_case_results[k]).automated_test_name = r.name
         IN  {send_attachment(r.attachments[a], published_results[p].id) :
                 a \in 1..Len(r.attachments)}
    ELSE LET p == CHOOSE k \in 1..Len(test_case_results) :
                     /\ IsGrouped(test_case_results[k])
                     /\ Get(test_case_results[k]).automated_test_name =
                           get_ddt_base_name(r.name)
             subs == Get(Get(test_case_results[p]).sub_results)
             m == CHOOSE n \in 1..Len(subs) : subs[n].display_name = r.name
         IN  {send_sub_attachment(r.attachments[a], published_results[p].id,
                                  Get(published_results[p].sub_results)[m].id) :
                 a \in 1..Len(r.attachments)}

\* the upload requests made so far, without their completion mark
RequestsMade ==
    [n \in 1..Len(uploads) |->
        [call |-> uploads[n].call, file_name |-> uploads[n].file_name,
         stream |-> uploads[n].stream, result_id |-> uploads[n].result_id,
         sub_result_id |-> uploads[n].sub_result_id]]

\* C19: when every record of a batch (here a list) has a distinct name
\* and a recognized outcome and the service accepts every row and echoes
\* names and sub-results in order, upload_batch, unless a call to the
\* service or the encoding of a text fails, ends without error having
\* uploaded every attachment of every record exactly once, against the
\* node of a standalone record and against the sub-result of a data-driven
\* record, and nothing else.
C19_AttachmentsReachOwnNode ==
    (/\ entry = "upload_batch"
     /\ ~singlePass
     /\ pc \in {"done", "raised"}
     /\ error \notin {"get_credentials", "get_client", "submit", "upload"}
                        \cup EncodeErrors
     /\ DistinctRecognized
     /\ AcceptedAndEchoed) =>
        LET due == UNION {UploadsDueTo(Get(results[k])) :
                             k \in {n \in 1..Len(results) : results[n] # None}}
        IN  /\ pc = "done"
            /\ Range(RequestsMade) = due
            /\ Len(uploads) = Cardinality(due)


----------------------------------------------------------------------------
(* formats/junit.py: JUnitFormat.read_results (lines 21-72).               *)

\* most end events of a report file
MaxEvents == 2

\* a failure or error child: attributes type and message, text
FailureChildren ==
    {[type |-> Some(<<"E">>), message |-> Some(<<"m">>), text |-> Some(<<"t">>)],
     [type |-> None, message |-> None, text |-> None]}

\* an error child
ErrorChildren ==
    {[type |-> Some(<<"E", "2">>), message |-> Some(<<"m", "2">>),
      text |-> Some(<<"t", "2">>)]}

\* a skipped child: with a reason, with an empty text, without text
SkippedChildren ==
    {[text |-> Some(<<"w", "h", "y">>)], [text |-> Some(<<>>)], [text |-> None]}

\* a system-out child and a system-err child, each with its text
SystemOutChild == [text |-> ConsoleOutput.text]

SystemErrChild == [text |-> ErrorOutput.text]

\* an Optional drawn from a set
OptionalOf(S) == {None} \cup {Some(x) : x \in S}

\* a testcase element with its three attributes and any combination of
\* children; find() sees the first child of a tag, so one child per tag.
\* The time is the text "12", written as the code points of its characters
TestcaseElements ==
    [tag : {"testcase"},
     name : {Some(<<"A">>)},
     classname : {Some(<<"c">>)},
     time : {Some(<<49, 50>>)},
     failure : OptionalOf(FailureChildren),
     error : OptionalOf(ErrorChildren),
     skipped : OptionalOf(SkippedChildren),
     system_out : OptionalOf({SystemOutChild}),
     system_err : OptionalOf({SystemErrChild})]

\* xml.etree.ElementTree.Element.clear(): no attributes, text or children
clear(element) ==
    [tag |-> element.tag, name |-> None, classname |-> None, time |-> None,
     failure |-> None, error |-> None, skipped |-> None,
     system_out |-> None, system_err |-> None]

\* the end event of an element that is not a testcase
TestsuiteElement ==
    [clear([tag |-> "testsuite"]) EXCEPT !.name = Some(<<"s">>)]

\* the testcase elements whose attributes are not the usual ones, without
\* children: the times "0.5", "&#160;12" (a no-break space leads it),
\* "&#1633;&#1634;" (12 in Arabic-Indic digits), "1e400" and "", no time,
\* no name, no classname; and the usual testcase with two children without
\* attributes or text, <failure/> and <system-out/>
OddTestcaseElements ==
    LET plain == [tag |-> "testcase", name |-> Some(<<"A">>),
                  classname |-> Some(<<"c">>), time |-> Some(<<49, 50>>),
                  failure |-> None, error |-> None, skipped |-> None,
                  system_out |-> None, system_err |-> None]
    IN  {[plain EXCEPT !.time = Some(<<48, 46, 53>>)],
         [plain EXCEPT !.time = Some(<<160, 49, 50>>)],
         [plain EXCEPT !.time = Some(<<1633, 1634>>)],
         [plain EXCEPT !.time = Some(<<49, 101, 52, 48, 48>>)],
         [plain EXCEPT !.time = Some(<<>>)],
         [plain EXCEPT !.time = None],
         [plain EXCEPT !.name = None],
         [plain EXCEPT !.classname = None],
         [plain EXCEPT !.failure = Some([type |-> None, message |-> None,
                                         text |-> None]),
                       !.system_out = Some([text |-> None])]}

\* the end events iterparse reports, in document order; the events of the
\* children of a testcase fail the test of line 23 like the testsuite's
Events == TestcaseElements \cup OddTestcaseElements \cup {TestsuiteElement}

\* A text handed to float is the sequence of the code points of its
\* characters (ord), so that the characters outside ASCII that float knows
\* can be written: "12" is <<49, 50>>.

\* the characters float strips from both ends: tab, line feed, vertical
\* tab, form feed, carriage return and space, and the Unicode white space
\* above U+007F.  U+001C..U+001F, which str.strip removes, are not among
\* them: float rejects a text that holds one.
Whitespace ==
    {9, 10, 11, 12, 13, 32, 133, 160, 5760} \cup (8192..8202)
        \cup {8232, 8233, 8239, 8287, 12288}

\* the digit zero of each of the 66 runs of ten decimal digits (category
\* Nd of Unicode 14.0, the database of CPython 3.11)
DecimalZeros ==
    {48, 1632, 1776, 1984, 2406, 2534, 2662, 2790, 2918, 3046, 3174, 3302,
     3430, 3558, 3664, 3792, 3872, 4160, 4240, 6112, 6160, 6470, 6608, 6784,
     6800, 6992, 7088, 7232, 7248, 42528, 43216, 43264, 43472, 43504, 43600,
     44016, 65296, 66720, 68912, 69734, 69872, 69942, 70096, 70384, 70736,
     70864, 71248, 71360, 71472, 71904, 72016, 72784, 73040, 73120, 92768,
     92864, 93008, 120782, 120792, 120802, 120812, 120822, 123200, 123632,
     125264, 130032}

\* the characters float reads as decimal digits
DecimalDigits == UNION {z..(z + 9) : z \in DecimalZeros}

\* the value of a decimal digit
DigitValue(c) == c - (CHOOSE z \in DecimalZeros : c \in z..(z + 9))

\* the text without the white space at its ends: from its first character
\* that is not white space to its last
Strip(s) ==
    LET kept == {n \in 1..Len(s) : s[n] \notin Whitespace}
    IN  IF kept = {} THEN <<>>
        ELSE SubSeq(s, CHOOSE n \in kept : \A m \in kept : n <= m,
                       CHOOSE n \in kept : \A m \in kept : n >= m)

\* an ASCII letter in lower case: inf, infinity and nan are read whatever
\* the case of their letters
Lower(c) == IF c \in 65..90 THEN c + 32 ELSE c

LowerText(s) == [n \in 1..Len(s) |-> Lower(s[n])]

\* the text without a leading sign, + (43) or - (45)
Unsigned(s) == IF s # <<>> /\ Head(s) \in {43, 45} THEN Tail(s) ELSE s

\* -1 for a leading minus sign, 1 otherwise
SignOf(s) == IF s # <<>> /\ Head(s) = 45 THEN -1 ELSE 1

\* the first position of one of the characters cs in s, Len(s) + 1 if none
FirstOf(s, cs) ==
    IF \E n \in 1..Len(s) : s[n] \in cs
    THEN CHOOSE n \in 1..Len(s) : s[n] \in cs /\ \A m \in 1..(n - 1) : s[m] \notin cs
    ELSE Len(s) + 1

\* digits, with single underscores (95) between digits only
IsDigitGroup(t) ==
    /\ t # <<>>
    /\ \A n \in 1..Len(t) : t[n] \in DecimalDigits \cup {95}
    /\ t[1] # 95
    /\ t[Len(t)] # 95
    /\ \A n \in 1..(Len(t) - 1) : ~(t[n] = 95 /\ t[n + 1] = 95)

\* the mantissa of a decimal text: what precedes the exponent mark, e (101)
\* or E (69)
MantissaOf(u) == SubSeq(u, 1, FirstOf(u, {101, 69}) - 1)

\* the exponent of a decimal text: what follows the exponent mark
ExponentOf(u) == SubSeq(u, FirstOf(u, {101, 69}) + 1, Len(u))

\* what precedes the point (46), and what follows it
IntegerPart(m) == SubSeq(m, 1, FirstOf(m, {46}) - 1)

FractionPart(m) == SubSeq(m, FirstOf(m, {46}) + 1, Len(m))

\* an unsigned text that reads as a decimal number; an underscore stands
\* between two digits, so none next to the point
IsDecimal(u) ==
    LET m == MantissaOf(u)
    IN  /\ IntegerPart(m) = <<>> \/ IsDigitGroup(IntegerPart(m))
        /\ FractionPart(m) = <<>> \/ IsDigitGroup(FractionPart(m))
        /\ IntegerPart(m) # <<>> \/ FractionPart(m) # <<>>
        /\ FirstOf(u, {101, 69}) <= Len(u) => IsDigitGroup(Unsigned(ExponentOf(u)))

\* the texts of the infinities, inf and infinity, and of not-a-number, nan,
\* without sign
InfinityTexts ==
    {<<105, 110, 102>>, <<105, 110, 102, 105, 110, 105, 116, 121>>}

NanText == <<110, 97, 110>>

\* the texts builtins.float converts; it raises ValueError on the others
IsFloatText(s) ==
    LET u == Unsigned(Strip(s))
    IN  LowerText(u) \in InfinityTexts \cup {NanText} \/ IsDecimal(u)

\* the values of the digits of a digit group, the first digit first
DigitsOf(t) ==
    LET d == SelectSeq(t, LAMBDA c : c # 95)
    IN  [n \in 1..Len(d) |-> DigitValue(d[n])]

\* digits without the zeros that lead them
Significant(d) ==
    LET first == IF \E n \in 1..Len(d) : d[n] # 0
                 THEN CHOOSE n \in 1..Len(d) :
                          d[n] # 0 /\ \A m \in 1..(n - 1) : d[m] = 0
                 ELSE Len(d) + 1
    IN  SubSeq(d, first, Len(d))

RECURSIVE NumberOf(_)
\* the number that at most nine digits write
NumberOf(d) ==
    IF d = <<>> THEN 0
    ELSE 10 * NumberOf(SubSeq(d, 1, Len(d) - 1)) + d[Len(d)]

\* the number a digit group of the exponent writes; above nine digits it
\* is held at 10^9, beyond which every text reads as zero or as infinity
ExponentValue(t) ==
    LET d == Significant(DigitsOf(t))
    IN  IF Len(d) > 9 THEN 1000000000 ELSE NumberOf(d)

\* A natural number of any size is the sequence of its decimal digits, the
\* units first.

\* the digit of weight 10^(n-1)
Digit(a, n) == IF n <= Len(a) THEN a[n] ELSE 0

\* twice a number
Double(a) ==
    LET length == IF a # <<>> /\ a[Len(a)] >= 5 THEN Len(a) + 1 ELSE Len(a)
    IN  Sequence([n \in 1..length |->
            ((2 * Digit(a, n)) % 10) + (IF n > 1 /\ a[n - 1] >= 5 THEN 1 ELSE 0)])

\* -1, 0 or 1 as a is less than, equal to or greater than b, on their n
\* lowest digits: the highest digit in which they differ decides
Compare(a, b, n) ==
    IF \A m \in 1..n : Digit(a, m) = Digit(b, m) THEN 0
    ELSE LET below == CHOOSE k \in 0..(n - 1) :
                          /\ Digit(a, n - k) # Digit(b, n - k)
                          /\ \A m \in (n - k + 1)..n : Digit(a, m) = Digit(b, m)
         IN  IF Digit(a, n - below) < Digit(b, n - below) THEN -1 ELSE 1

Less(a, b) ==
    Compare(a, b, IF Len(a) > Len(b) THEN Len(a) ELSE Len(b)) < 0

\* a - b, for b not greater than a: position n borrows when the digits
\* below it are less in a than in b
Minus(a, b) ==
    Sequence([n \in 1..Len(a) |->
        (10 + a[n] - Digit(b, n) - (IF Compare(a, b, n - 1) < 0 THEN 1 ELSE 0)) % 10])

IsZero(a) == \A n \in 1..Len(a) : a[n] = 0

\* 10^k
PowerOfTen(k) == [n \in 1..(k + 1) |-> IF n = k + 1 THEN 1 ELSE 0]

\* the least exponent of a binary64 value with a leading one, and the
\* greatest
MinExponent == -1022

MaxExponent == 1023

\* how many binary digits follow the leading one
FractionBits == 52

RECURSIVE TimesPowerOfTwo(_, _)
\* a * 2^k, by halves of k
TimesPowerOfTwo(a, k) ==
    IF IsZero(a) \/ k <= 0 THEN a
    ELSE IF k = 1 THEN Double(a)
    ELSE TimesPowerOfTwo(TimesPowerOfTwo(a, k \div 2), k - k \div 2)

RECURSIVE Normalize(_, _, _)
\* a / b * 2^p written with a / b in [1, 2); a / b is below 1 only at the
\* least exponent, where the value has no leading one
Normalize(a, b, p) ==
    IF ~Less(a, Double(b)) THEN Normalize(a, Double(b), p + 1)
    ELSE IF Less(a, b) /\ p > MinExponent THEN Normalize(Double(a), b, p - 1)
    ELSE [a |-> a, b |-> b, p |-> p]

\* a / b written as Normalize writes it, from an exponent near the one of
\* a / b: the decimal digits of a number are 3.322 times fewer than its
\* binary digits
Scale(a, b) ==
    LET near == ((Len(a) - Len(b)) * 3322) \div 1000
        p == IF near < MinExponent THEN MinExponent ELSE near
    IN  Normalize(TimesPowerOfTwo(a, -p), TimesPowerOfTwo(b, p), p)

RECURSIVE Expand(_, _, _)
\* the first n binary digits of r / b after the point, for r less than b,
\* and what they leave: r / b = 0.bits + rest / b / 2^n; by halves of n
Expand(r, b, n) ==
    IF n = 0 THEN [bits |-> <<>>, rest |-> r]
    ELSE IF IsZero(r) THEN [bits |-> [k \in 1..n |-> 0], rest |-> r]
    ELSE IF n = 1
         THEN IF Less(Double(r), b) THEN [bits |-> <<0>>, rest |-> Double(r)]
              ELSE [bits |-> <<1>>, rest |-> Minus(Double(r), b)]
    ELSE LET first == Expand(r, b, n \div 2)
             second == Expand(first.rest, b, n - n \div 2)
         IN  [bits |-> first.bits \o second.bits, rest |-> second.rest]

\* binary digits that are not all ones, plus one in the last place
Increment(bits) ==
    LET last == CHOOSE n \in 1..Len(bits) :
                    bits[n] = 0 /\ \A m \in (n + 1)..Len(bits) : bits[m] = 1
    IN  [n \in 1..Len(bits) |->
            IF n < last THEN bits[n] ELSE IF n = last THEN 1 ELSE 0]

\* the infinity of a sign, and not-a-number
Infinity(sign) == [kind |-> "inf", sign |-> sign]

NotANumber == [kind |-> "nan"]

\* a finite binary64 value as float.hex() writes it: sign, leading digit
\* (0 for zero and for the values below 2^-1022), the 13 hexadecimal digits
\* after the point and the exponent of two; -0.0 is a value of its own
Finite(sign, bits, exponent) ==
    [kind |-> "finite", sign |-> sign, lead |-> bits[1],
     fraction |-> [n \in 1..13 |->
                      8 * bits[4 * n - 2] + 4 * bits[4 * n - 1]
                          + 2 * bits[4 * n] + bits[4 * n + 1]],
     exponent |-> exponent]

Zero(sign) == Finite(sign, [n \in 1..(FractionBits + 1) |-> 0], 0)

\* the binary64 value nearest to sign * a / b, for a above 0; a value half
\* way between two takes the one whose last binary digit is 0, and a value
\* that rounds beyond the greatest finite one is an infinity
Nearest(sign, a, b) ==
    LET scaled == Scale(a, b)
        lead == IF Less(scaled.a, scaled.b) THEN 0 ELSE 1
        expansion == Expand(IF lead = 1 THEN Minus(scaled.a, scaled.b) ELSE scaled.a,
                            scaled.b, FractionBits)
        bits == <<lead>> \o expansion.bits
        half == Compare(Double(expansion.rest), scaled.b, Len(scaled.b) + 1)
        up == half > 0 \/ (half = 0 /\ bits[FractionBits + 1] = 1)
        carried == up /\ \A n \in 1..Len(bits) : bits[n] = 1
        rounded == IF carried THEN [n \in 1..Len(bits) |-> IF n = 1 THEN 1 ELSE 0]
                   ELSE IF up THEN Increment(bits) ELSE bits
        exponent == IF carried THEN scaled.p + 1 ELSE scaled.p
    IN  IF exponent > MaxExponent THEN Infinity(sign)
        ELSE IF IsZero(rounded) THEN Zero(sign)
        ELSE Finite(sign, rounded, exponent)

\* the binary64 value of sign * 0.d * 10^magnitude, d the digits after the
\* point, the first of them not zero: at least 10^309 is beyond the
\* greatest finite value and below 10^-323 is nearer to zero than to the
\* least value above it
Decimal(sign, d, magnitude) ==
    LET units == [n \in 1..Len(d) |-> d[Len(d) + 1 - n]]
        shift == magnitude - Len(d)
    IN  IF d = <<>> THEN Zero(sign)
        ELSE IF magnitude > 309 THEN Infinity(sign)
        ELSE IF magnitude < -323 THEN Zero(sign)
        ELSE IF shift >= 0
             THEN Nearest(sign, [n \in 1..shift |-> 0] \o units, PowerOfTen(0))
        ELSE Nearest(sign, units, PowerOfTen(-shift))

\* the value that raising ValueError stands for
ValueError == [raises |-> "ValueError"]

\* line 29: builtins.float applied to a text
float(s) ==
    LET t == Strip(s)
        u == Unsigned(t)
        m == MantissaOf(u)
        d == Significant(DigitsOf(IntegerPart(m) \o FractionPart(m)))
        exponent == SignOf(ExponentOf(u)) * ExponentValue(Unsigned(ExponentOf(u)))
        point == Len(DigitsOf(FractionPart(m)))
    IN  IF ~IsFloatText(s) THEN ValueError
        ELSE IF LowerText(u) \in InfinityTexts THEN Infinity(SignOf(t))
        ELSE IF LowerText(u) = NanText THEN NotANumber
        ELSE Decimal(SignOf(t), d, Len(d) + exponent - point)

\* lines 38-40: the failure child, or else the error child
failure_element(element) ==
    IF element.failure # None THEN element.failure ELSE element.error

\* lines 48-60: stdout and stderr as attachments, in this order
CapturedOutput(element) ==
    (IF element.system_out # None
     THEN <<[name |-> "Console_Output.log", text |-> Get(element.system_out).text]>>
     ELSE <<>>)
    \o (IF element.system_err # None
        THEN <<[name |-> "Error_Output.log", text |-> Get(element.system_err).text]>>
        ELSE <<>>)

\* line 65: skipped_element.text or u""
ReasonOf(skipped_element) ==
    IF skipped_element.text = None \/ Get(skipped_element.text) = <<>>
    THEN <<>> ELSE Get(skipped_element.text)

\* lines 24-69: the record made from one testcase element
ReadTestcase(element) ==
    LET failed == failure_element(element) # None
        skipped == element.skipped # None
    IN  [name |-> Get(element.classname) \o <<".">> \o Get(element.name),
         kind |-> <<"j", "u", "n", "i", "t">>,
         type_name |-> Get(element.classname),
         method |-> Get(element.name),
         duration_seconds |-> float(Get(element.time)),
         result |-> IF skipped THEN "Skip" ELSE IF failed THEN "Fail" ELSE "Pass",
         exception_type |-> IF failed THEN Get(failure_element(element)).type ELSE None,
         failure_message |-> IF failed THEN Get(failure_element(element)).message ELSE None,
         stack_trace |-> IF failed THEN Get(failure_element(element)).text ELSE None,
         skip_reason |-> IF skipped THEN Some(ReasonOf(Get(element.skipped))) ELSE None,
         attachments |-> IF failed THEN CapturedOutput(element) ELSE <<>>]

\* the variables of the publisher, which read_results does not touch
PublisherIdle ==
    UNCHANGED <<entry, results, singlePass, consumed, results_with_attachments,
                test_case_results, test_name_order>>
    /\ UNCHANGED convertVars
    /\ UNCHANGED publishVars
    /\ UNCHANGED connectionVars

\* lines 24-29 run to their end for this testcase: the three attributes
\* are there and the time converts
Readable(element) ==
    /\ element.name # None
    /\ element.classname # None
    /\ element.time # None
    /\ IsFloatText(Get(element.time))

\* the exception lines 26 and 29 raise for a testcase that is not readable:
\* str + None and float(None) raise TypeError, float of an unreadable text
\* raises ValueError
ReadError(element) ==
    IF element.name = None \/ element.classname = None \/ element.time = None
    THEN "TypeError" ELSE "ValueError"

\* lines 22-70: the next end event is a testcase; its record is yielded and
\* the generator is suspended at line 70, the element as it was parsed
YieldTestcase ==
    /\ pc = "read_results"
    /\ position <= Len(document)
    /\ document[position].tag = "testcase"
    /\ Readable(document[position])
    /\ yielded' = Append(yielded, ReadTestcase(document[position]))
    /\ position' = position + 1
    /\ pc' = "yielded"
    /\ UNCHANGED document
    /\ PublisherIdle

\* line 72: the consumer asks for the next record and the element of the
\* record just yielded is cleared
ClearElement ==
    /\ pc = "yielded"
    /\ document' = [document EXCEPT ![position - 1] = clear(@)]
    /\ pc' = "read_results"
    /\ UNCHANGED <<position, yielded>>
    /\ PublisherIdle

\* line 70: the consumer closes the generator it holds suspended; line 72
\* does not run for the last record
CloseGenerator ==
    /\ pc = "yielded"
    /\ pc' = "closed"
    /\ UNCHANGED junitVars
    /\ PublisherIdle

\* lines 26 and 29: the next end event is a testcase whose attributes
\* cannot be read; the exception ends the generator
ReadRaises ==
    /\ pc = "read_results"
    /\ position <= Len(document)
    /\ document[position].tag = "testcase"
    /\ ~Readable(document[position])
    /\ position' = position + 1
    /\ pc' = "raised"
    /\ error' = ReadError(document[position])
    /\ UNCHANGED <<document, yielded>>
    /\ UNCHANGED <<entry, results, singlePass, consumed, results_with_attachments,
                   test_case_results, test_name_order>>
    /\ UNCHANGED convertVars
    /\ UNCHANGED <<submitted, published_results, j, handled, uploads, warnings>>
    /\ UNCHANGED connectionVars

\* line 23: the next end event is not a testcase
SkipEvent ==
    /\ pc = "read_results"
    /\ position <= Len(document)
    /\ document[position].tag # "testcase"
    /\ position' = position + 1
    /\ UNCHANGED <<pc, document, yielded>>
    /\ PublisherIdle

\* line 22: the events are exhausted and the generator ends
EndOfDocument ==
    /\ pc = "read_results"
    /\ position > Len(document)
    /\ pc' = "exhausted"
    /\ UNCHANGED junitVars
    /\ PublisherIdle

\* read_results called on a report file
InitJUnit ==
    /\ entry = "read_results"
    /\ pc = "read_results"
    /\ results = <<>>
    /\ singlePass = TRUE
    /\ access_token = None
    /\ Fresh
    /\ document \in SeqUpTo(Events, MaxEvents)
    /\ position = 1
    /\ yielded = <<>>

NextJUnit ==
    \/ YieldTestcase
    \/ ClearElement
    \/ CloseGenerator
    \/ ReadRaises
    \/ SkipEvent
    \/ EndOfDocument

SpecJUnit == InitJUnit /\ [][NextJUnit]_vars

\* C13: every record the JUnit parser yields, whatever children its
\* testcase has, carries failure_message and stack_trace only when its
\* outcome is Fail, and skip_reason only when its outcome is Skip.
C13_RecordInvariant ==
    \A n \in 1..Len(yielded) :
       /\ yielded[n].failure_message # None => yielded[n].result = "Fail"
       /\ yielded[n].stack_trace # None => yielded[n].result = "Fail"
       /\ yielded[n].skip_reason # None => yielded[n].result = "Skip"


\* read_results yields, in this step, the record of the testcase at the
\* current position
YieldsRecord ==
    /\ pc = "read_results"
    /\ position <= Len(document)
    /\ document[position].tag = "testcase"
    /\ Len(yielded') = Len(yielded) + 1

\* the names of a list of attachments
AttachmentNames(attachments) ==
    [n \in 1..Len(attachments) |-> attachments[n].name]

\* C14: stdout and stderr are captured only alongside a failure or error
\* child: a testcase without failure and error yields no attachments; a
\* testcase with a failure and a system-out child and no system-err yields
\* outcome Fail and exactly one attachment, Console_Output.log; with both
\* outputs Console_Output.log precedes Error_Output.log.
C14_OutputCaptured ==
    [][YieldsRecord =>
          LET element == document[position]
              r == yielded'[Len(yielded')]
              failed == element.failure # None \/ element.error # None
          IN  /\ ~failed => r.attachments = <<>>
              /\ (element.failure # None /\ element.system_out # None
                    /\ element.system_err = None) =>
                    /\ r.result = "Fail"
                    /\ AttachmentNames(r.attachments) = <<"Console_Output.log">>
              /\ (failed /\ element.system_out # None /\ element.system_err # None) =>
                    AttachmentNames(r.attachments) =
                       <<"Console_Output.log", "Error_Output.log">>
              /\ (failed /\ element.system_out = None /\ element.system_err # None) =>
                    AttachmentNames(r.attachments) = <<"Error_Output.log">>
              /\ (failed /\ element.system_out = None /\ element.system_err = None) =>
                    r.attachments = <<>>]_vars


\* the input positions of the records named n that have a recognized outcome
RecognizedNamed(n) ==
    {k \in 1..Len(results) :
        /\ results[k] # None
        /\ Get(results[k]).name = n
        /\ Get(results[k]).result \in Recognized}

\* the returned standalone nodes made from a record named n
StandaloneNamed(n) ==
    {k \in 1..Len(test_case_results) :
        /\ IsStandalone(test_case_results[k])
        /\ Get(test_case_results[k]).test_case_title = n}

\* the returned sub-results made from a record named n, each as the pair
\* of its group's position and its own position in the group; inGroup
\* tells whether the group is taken under the base name of n or elsewhere
SubResultsNamed(n, inGroup) ==
    {p \in (1..Len(test_case_results)) \X (1..MaxRecords) :
        /\ IsGrouped(test_case_results[p[1]])
        /\ (Get(test_case_results[p[1]]).automated_test_name = get_ddt_base_name(n))
              = inGroup
        /\ p[2] <= Len(Get(Get(test_case_results[p[1]]).sub_results))
        /\ Get(Get(test_case_results[p[1]]).sub_results)[p[2]].display_name = n}

\* C21: convert_results neither loses nor duplicates a record: every
\* record with a recognized outcome is in the output once, as a standalone
\* node when its name does not end in ")" and as a sub-result of the group
\* of its base name when it does, so the standalone nodes and the
\* sub-results together are as many as those records.
C21_NoLossNoDuplication ==
    pc = "returned" =>
       /\ \A n \in Names :
             IF is_data_driven_test(n)
             THEN /\ Cardinality(SubResultsNamed(n, TRUE)) = Cardinality(RecognizedNamed(n))
                  /\ SubResultsNamed(n, FALSE) = {}
                  /\ StandaloneNamed(n) = {}
             ELSE /\ Cardinality(StandaloneNamed(n)) = Cardinality(RecognizedNamed(n))
                  /\ SubResultsNamed(n, TRUE) = {}
                  /\ SubResultsNamed(n, FALSE) = {}
       /\ Cardinality({k \in 1..Len(test_case_results) : IsStandalone(test_case_results[k])})
             + SubResultCount(test_case_results)
          = Cardinality(UNION {RecognizedNamed(n) : n \in Names})

\* C21 witness: a standalone record and two variants of one base name, all
\* with recognized outcomes, came back as one node and two sub-results
C21_Witness ==
    /\ pc = "returned"
    /\ Cardinality(UNION {RecognizedNamed(n) : n \in Names}) = 3
    /\ Cardinality({k \in 1..Len(test_case_results) : IsStandalone(test_case_results[k])}) = 1
    /\ SubResultCount(test_case_results) = 2
    /\ Len(test_case_results) = 2

====
